---- MODULE Spec2Model ----
(***************************************************************************)
(* PolyBench/Python: the measurement harness of benchmarks/polybench.py   *)
(* (time_kernel, the instruments, the PAPI counter loop, the Linux         *)
(* scheduler switch) driven by the launcher run-benchmark.py, and the      *)
(* pure helpers of the benchmarks (create_array, the construction of a     *)
(* benchmark from its polybench.spec row, print_array_custom).             *)
(***************************************************************************)
EXTENDS Integers, Sequences, FiniteSets, TLC

(***************************************************************************)
(* Bounds of the model.                                                    *)
(***************************************************************************)
\* the largest --iterations value explored
MaxIter == 2
\* the largest number of names read from papi_counters.list
MaxNames == 3
\* create_array: the largest number of dimensions, requested size and padding
MaxDims == 3
MaxSize == 2
MaxPad == 2
\* the largest scale of the problem sizes of a polybench.spec row
MaxScale == 2
\* print_array_custom: the largest extent of a dumped dimension
MaxExtent == 7
\* the largest number of lines of papi_counters.list that is parsed
MaxLines == 3
\* the largest POLYBENCH_CACHE_SIZE_KB that is flushed
MaxCacheKB == 2
\* verification: the largest size of a compared file and its latest timestamp
MaxBytes == 1
MaxMtime == 2
\* the longest time, in clock ticks, that one kernel invocation takes
MaxDur == 1

VARIABLES
    \* ---- the launcher's inputs (fixed for one process) ----
    argv_options,           \* --polybench-options, split at ','
    iterations,             \* --iterations
    interp,                 \* platform.python_implementation()
    privileged,             \* whether the OS grants real-time policies to the process
    counters_file,          \* the names parse_counters_file() reads
    \* ---- the launcher and the benchmark instance ----
    pc,                     \* position of the process
    options,                \* result['polybench_options'] / the instance's POLYBENCH_* fields
    run_no,                 \* number of instances constructed so far
    sched,                  \* scheduling policy of the process
    papi_counters,          \* PolyBench.__papi_counters (class attribute)
    papi_counters_result,   \* PolyBench.__papi_counters_result (class attribute)
    active,                 \* counters started in the PAPI library and not yet stopped
    polybench_result,       \* self.polybench_result
    returned,               \* what run() returned to the launcher
    warnings,               \* names printed as 'WARNING: counter ... not available.' in this run
    error,                  \* the uncaught exception that ended the process, or "none"
    \* ---- history, for stating the claims ----
    trace,                  \* harness events of the current run, in order
    switched,               \* time_kernel of this run switched the process to FIFO
    denied,                 \* the OS refused a scheduler switch in this process
    \* ---- the timer ----
    has_tsc,                \* whether the host lets the process execute RDTSC
    clock,                  \* the instant, in ticks, that time() and the TSC show
    timer_start_t,          \* self.__timer_start_t
    timer_stop_t,           \* self.__timer_stop_t
    printed,                \* the values __print_instruments printed in this run
    \* ---- the pure helpers, each exercised by its own specification ----
    arr,                    \* create_array: the call and the array created
    bench,                  \* construction of a benchmark from a polybench.spec row
    dump,                   \* print_array_custom: the dimensions and the text printed
    launch,                 \* run-benchmark.py: the arguments, the parsed result, the run
    cfile,                  \* parse_counters_file: the lines of the file and the names read
    cache,                  \* __flush_cache: the buffer and the sum
    mda,                    \* the list-based arrays created and their class accessors
    fw,                     \* floyd_warshall: the path matrix of each storage strategy
    lookup,                 \* run(): the rows of polybench.spec and the row chosen
    popts                   \* --polybench-options: the text given and the options parsed

hvars == <<argv_options, iterations, interp, privileged, counters_file, pc, options,
           run_no, sched, papi_counters, papi_counters_result, active, polybench_result,
           returned, warnings, error, trace, switched, denied,
           has_tsc, clock, timer_start_t, timer_stop_t, printed>>
\* the timer of the instance and what the run printed
avars == <<has_tsc, clock, timer_start_t, timer_stop_t, printed>>
lvars == <<launch, cfile, cache>>
nvars == <<mda, fw, lookup, popts>>
pvars == <<arr, bench, dump, launch, cfile, cache, mda, fw, lookup, popts>>
vars == <<hvars, pvars>>

\* The value of an attribute not set yet, and of dict.get() for a missing key.
None == -1

(***************************************************************************)
(* Options (benchmarks/polybench_options.py).                              *)
(***************************************************************************)
BoolOptions == {"POLYBENCH_TIME", "POLYBENCH_GFLOPS", "POLYBENCH_PAPI",
                "POLYBENCH_NO_FLUSH_CACHE", "POLYBENCH_LINUX_FIFO_SCHEDULER",
                "POLYBENCH_CYCLE_ACCURATE_TIMER", "POLYBENCH_DUMP_ARRAYS"}

polybench_default_options == [o \in BoolOptions |-> FALSE]

\* A fixed order of the option names, to enumerate command lines.
OptionOrder == <<"POLYBENCH_TIME", "POLYBENCH_GFLOPS", "POLYBENCH_PAPI",
                 "POLYBENCH_NO_FLUSH_CACHE", "POLYBENCH_LINUX_FIFO_SCHEDULER",
                 "POLYBENCH_CYCLE_ACCURATE_TIMER", "POLYBENCH_DUMP_ARRAYS">>

RECURSIVE SelectSeq2(_, _)
SelectSeq2(s, S) ==
    IF s = <<>> THEN <<>>
    ELSE (IF Head(s) \in S THEN <<Head(s)>> ELSE <<>>) \o SelectSeq2(Tail(s), S)

\* The command lines explored: every subset of the boolean options, each once.
CommandLines == {SelectSeq2(OptionOrder, S) : S \in SUBSET BoolOptions}

\* parse_command_line, "Process PolyBench options": each token that names an
\* option sets it to True; nothing is rejected.
RECURSIVE parse_options(_, _)
parse_options(tokens, result) ==
    IF tokens = <<>> THEN result
    ELSE parse_options(Tail(tokens),
                       IF Head(tokens) \in DOMAIN result
                       THEN [result EXCEPT ![Head(tokens)] = TRUE]
                       ELSE result)

(***************************************************************************)
(* The PAPI library (pypapi): the events it exposes, name -> identifier.   *)
(***************************************************************************)
CounterNames == {"PAPI_TOT_CYC", "PAPI_L1_DCM", "NOT_A_REAL_EVENT"}
papi_available_counters == [n \in {"PAPI_TOT_CYC", "PAPI_L1_DCM"} |->
                               IF n = "PAPI_TOT_CYC" THEN 1 ELSE 2]

RECURSIVE SeqsUpTo(_, _)
SeqsUpTo(S, n) ==
    IF n = 0 THEN {<<>>}
    ELSE LET shorter == SeqsUpTo(S, n - 1)
         IN shorter \cup {Append(s, x) : s \in {t \in shorter : Len(t) = n - 1}, x \in S}

Range(s) == {s[i] : i \in 1..Len(s)}

\* __papi_init, lines 492-501: the identifiers appended to __papi_counters,
\* in file order, one per name the library knows.
RECURSIVE resolve_counters(_)
resolve_counters(user_counters) ==
    IF user_counters = <<>> THEN <<>>
    ELSE (IF Head(user_counters) \in DOMAIN papi_available_counters
          THEN <<papi_available_counters[Head(user_counters)]>>
          ELSE <<>>) \o resolve_counters(Tail(user_counters))

\* __papi_init, lines 500-501: the names warned about, in file order.
RECURSIVE unavailable_counters(_)
unavailable_counters(user_counters) ==
    IF user_counters = <<>> THEN <<>>
    ELSE (IF Head(user_counters) \in DOMAIN papi_available_counters
          THEN <<>>
          ELSE <<Head(user_counters)>>) \o unavailable_counters(Tail(user_counters))

\* __papi_print.papi_counter_names: the first available name with the identifier.
counter_name(id) == CHOOSE n \in DOMAIN papi_available_counters :
                        papi_available_counters[n] = id

papi_counter_names(counters) == [i \in 1..Len(counters) |-> counter_name(counters[i])]

\* A faulty pairing: the i-th name gets the i-th result counted from the end.
RECURSIVE papi_result_from_end(_, _, _, _)
papi_result_from_end(names, results, i, acc) ==
    IF i > Len(names) THEN acc
    ELSE papi_result_from_end(names, results, i + 1,
                     [n \in DOMAIN acc \cup {names[i]} |->
                        IF n = names[i] THEN results[Len(names) + 1 - i] ELSE acc[n]])

\* __papi_print, lines 517-526: polybench_result[counter_names[i]] = result[i],
\* for i in order, a later i overwriting an earlier one with the same name.
RECURSIVE papi_result(_, _, _, _)
papi_result(names, results, i, acc) ==
    IF i > Len(names) THEN acc
    ELSE papi_result(names, results, i + 1,
                     [n \in DOMAIN acc \cup {names[i]} |->
                        IF n = names[i] THEN results[i] ELSE acc[n]])

EmptyMap == [n \in {} |-> 0]

(***************************************************************************)
(* Events of the harness.                                                  *)
(***************************************************************************)
Ev(e, c) == [ev |-> e, c |-> c]

TimerMode == options["POLYBENCH_TIME"] \/ options["POLYBENCH_GFLOPS"]
PapiMode == ~TimerMode /\ options["POLYBENCH_PAPI"]

\* The kernel's sched_setscheduler: a real-time policy needs privilege.
os_grants(policy) == policy = "SCHED_OTHER" \/ privileged

\* os.sched_setscheduler raises PermissionError when refused; the inline C
\* functions of lines 144-156 ignore the return value of sched_setscheduler.
sched_raises(policy) == interp = "CPython" /\ ~os_grants(policy)

\* The numbers of the scheduling policies (os.SCHED_OTHER, os.SCHED_FIFO).
os_SCHED_OTHER == 0
os_SCHED_FIFO == 1

\* sched_get_priority_max(policy) of Linux: 1..99 are the real-time priorities.
sched_get_priority_max(policy) == IF policy = "SCHED_FIFO" THEN 99 ELSE 0

\* __linux_fifo_scheduler: the sched_priority requested together with
\* SCHED_FIFO.  os.sched_param(x) builds a parameter of priority x, and line
\* 540 passes it os.SCHED_FIFO; the inline C of line 148 asks the maximum.
fifo_priority ==
    IF interp = "CPython" THEN os_SCHED_FIFO ELSE sched_get_priority_max("SCHED_FIFO")

\* __linux_standard_scheduler: the sched_priority requested with SCHED_OTHER
\* (line 547: os.sched_param(os.SCHED_OTHER); line 153 for the inline C).
standard_priority ==
    IF interp = "CPython" THEN os_SCHED_OTHER ELSE sched_get_priority_max("SCHED_OTHER")

\* A preparation that asks for the FIFO scheduler before it flushes the cache.
prepare_events_fifo_first ==
    (IF options["POLYBENCH_LINUX_FIFO_SCHEDULER"]
     THEN <<Ev("fifo", fifo_priority)>> ELSE <<>>)
    \o (IF ~options["POLYBENCH_NO_FLUSH_CACHE"] THEN <<Ev("flush", 0)>> ELSE <<>>)

\* __prepare_instruments: the events it adds.  A "fifo" or "standard" event
\* carries the priority requested, a "kernel" event the ticks it took, a
\* "timer_start" or "timer_stop" event the instant read.
prepare_events ==
    (IF ~options["POLYBENCH_NO_FLUSH_CACHE"] THEN <<Ev("flush", 0)>> ELSE <<>>)
    \o (IF options["POLYBENCH_LINUX_FIFO_SCHEDULER"]
        THEN <<Ev("fifo", fifo_priority)>> ELSE <<>>)

\* __prepare_instruments followed by the statements `after` (events) of its
\* caller, which then continues at `next`.
prepare_instruments(after, next) ==
    IF options["POLYBENCH_LINUX_FIFO_SCHEDULER"]
    THEN /\ denied' = (denied \/ ~os_grants("SCHED_FIFO"))
         /\ IF sched_raises("SCHED_FIFO")
            THEN /\ trace' = trace \o prepare_events
                 /\ pc' = "error"
                 /\ error' = "PermissionError"
                 /\ UNCHANGED <<sched, switched>>
            ELSE /\ trace' = trace \o prepare_events \o after
                 /\ pc' = next
                 /\ sched' = IF os_grants("SCHED_FIFO") THEN "SCHED_FIFO" ELSE sched
                 /\ switched' = (switched \/ os_grants("SCHED_FIFO"))
                 /\ UNCHANGED error
    ELSE /\ trace' = trace \o prepare_events \o after
         /\ pc' = next
         /\ UNCHANGED <<sched, switched, denied, error>>

(***************************************************************************)
(* The launcher: parse_command_line, then run().                           *)
(***************************************************************************)
HInit ==
    /\ argv_options \in CommandLines
    /\ iterations \in 1..MaxIter
    /\ interp \in {"CPython", "PyPy"}
    /\ privileged \in BOOLEAN
    \* papi_counters.list is opened by __papi_init alone: its content is left
    \* empty on the command lines that never reach __papi_init.
    /\ counters_file \in IF "POLYBENCH_PAPI" \in Range(argv_options)
                            /\ "POLYBENCH_TIME" \notin Range(argv_options)
                            /\ "POLYBENCH_GFLOPS" \notin Range(argv_options)
                         THEN SeqsUpTo(CounterNames, MaxNames)
                         ELSE {<<>>}
    /\ pc = "parse"
    /\ options = polybench_default_options
    /\ run_no = 0
    /\ sched = "SCHED_OTHER"
    /\ papi_counters = <<>>
    /\ papi_counters_result = <<>>
    /\ active = {}
    /\ polybench_result = EmptyMap
    /\ returned = EmptyMap
    /\ warnings = <<>>
    /\ error = "none"
    /\ trace = <<>>
    /\ switched = FALSE
    /\ denied = FALSE
    \* _read_tsc is called in timer mode alone: elsewhere the host's TSC is
    \* left out of the picture.
    /\ has_tsc \in IF "POLYBENCH_TIME" \in Range(argv_options)
                       \/ "POLYBENCH_GFLOPS" \in Range(argv_options)
                    THEN BOOLEAN ELSE {TRUE}
    /\ clock = 0
    /\ timer_start_t = None
    /\ timer_stop_t = None
    /\ printed = <<>>

LIdle ==
    /\ launch = [state |-> "idle"]
    /\ cfile = [state |-> "idle"]
    /\ cache = [state |-> "idle"]

NIdle ==
    /\ mda = [state |-> "idle"]
    /\ fw = [state |-> "idle"]
    /\ lookup = [state |-> "idle"]
    /\ popts = [state |-> "idle"]

PIdle ==
    /\ arr = [state |-> "idle"]
    /\ bench = [state |-> "idle"]
    /\ dump = [state |-> "idle"]
    /\ LIdle
    /\ NIdle

Init == HInit /\ PIdle

\* parse_command_line (run-benchmark.py 205-222).
parse_command_line ==
    /\ pc = "parse"
    /\ options' = parse_options(argv_options, polybench_default_options)
    /\ pc' = "construct"
    /\ UNCHANGED <<argv_options, iterations, interp, privileged, counters_file, run_no,
                   sched, papi_counters, papi_counters_result, active, polybench_result,
                   returned, warnings, error, trace, switched, denied>>
    /\ UNCHANGED avars
    /\ UNCHANGED pvars

\* run(): instance = implementation(options, parameters), then instance.run()
\* enters run_benchmark and reaches time_kernel.  PolyBench.__init__ assembles
\* _read_tsc for every instance (lines 163-171) and executes none of it.
construct ==
    /\ pc = "construct"
    /\ run_no < iterations
    /\ run_no' = run_no + 1
    /\ polybench_result' = EmptyMap
    /\ warnings' = <<>>
    /\ trace' = <<>>
    /\ switched' = FALSE
    /\ timer_start_t' = None
    /\ timer_stop_t' = None
    /\ printed' = <<>>
    /\ pc' = "time_kernel"
    /\ UNCHANGED <<argv_options, iterations, interp, privileged, counters_file, options,
                   sched, papi_counters, papi_counters_result, active, returned, error,
                   denied, has_tsc, clock>>
    /\ UNCHANGED pvars

\* time_kernel, lines 384-389: the choice of the measurement.
time_kernel ==
    /\ pc = "time_kernel"
    /\ pc' = IF options["POLYBENCH_TIME"] \/ options["POLYBENCH_GFLOPS"] THEN "timer_start"
             ELSE IF options["POLYBENCH_PAPI"] THEN "papi_init"
             ELSE "stop_instruments"
    /\ UNCHANGED <<argv_options, iterations, interp, privileged, counters_file, options,
                   run_no, sched, papi_counters, papi_counters_result, active,
                   polybench_result, returned, warnings, error, trace, switched, denied>>
    /\ UNCHANGED avars
    /\ UNCHANGED pvars

\* __timer_start, lines 422 and 425: __prepare_instruments.
timer_start ==
    /\ pc = "timer_start"
    /\ prepare_instruments(<<>>, "timer_read")
    /\ UNCHANGED <<argv_options, iterations, interp, privileged, counters_file, options,
                   run_no, papi_counters, papi_counters_result, active, polybench_result,
                   returned, warnings>>
    /\ UNCHANGED avars
    /\ UNCHANGED pvars

\* The timer read is RDTSC and the host does not let the process execute it:
\* the instruction faults (a signal ends the process) or, where the bytes mean
\* something else to the processor, the call returns a meaningless number.
tsc_unusable == options["POLYBENCH_CYCLE_ACCURATE_TIMER"] /\ ~has_tsc

\* __timer_start, lines 423 and 426: the start instant, time() or _read_tsc().
timer_start_read ==
    /\ pc = "timer_read"
    /\ IF tsc_unusable
       THEN \/ /\ pc' = "error"
               /\ error' = "Signal"
               /\ UNCHANGED <<timer_start_t, trace>>
            \/ /\ timer_start_t' = 0
               /\ trace' = Append(trace, Ev("timer_start", 0))
               /\ pc' = "timer_kernel"
               /\ UNCHANGED error
       ELSE /\ timer_start_t' = clock
            /\ trace' = Append(trace, Ev("timer_start", clock))
            /\ pc' = "timer_kernel"
            /\ UNCHANGED error
    /\ UNCHANGED <<argv_options, iterations, interp, privileged, counters_file, options,
                   run_no, sched, papi_counters, papi_counters_result, active,
                   polybench_result, returned, warnings, switched, denied>>
    /\ UNCHANGED <<has_tsc, clock, timer_stop_t, printed>>
    /\ UNCHANGED pvars

\* self.kernel(...) of line 387: it returns after some time, or it raises and
\* the exception leaves time_kernel, run_benchmark, run() and the launcher.
timer_kernel ==
    /\ pc = "timer_kernel"
    /\ \/ \E d \in 0..MaxDur :
             /\ clock' = clock + d
             /\ trace' = Append(trace, Ev("kernel", d))
             /\ pc' = "timer_stop"
             /\ UNCHANGED error
       \/ /\ trace' = Append(trace, Ev("kernel_raised", 0))
          /\ pc' = "error"
          /\ error' = "KernelError"
          /\ UNCHANGED clock
    /\ UNCHANGED <<argv_options, iterations, interp, privileged, counters_file, options,
                   run_no, sched, papi_counters, papi_counters_result, active,
                   polybench_result, returned, warnings, switched, denied>>
    /\ UNCHANGED <<has_tsc, timer_start_t, timer_stop_t, printed>>
    /\ UNCHANGED pvars

\* __timer_stop: the stop instant, time() or _read_tsc().
timer_stop ==
    /\ pc = "timer_stop"
    /\ IF tsc_unusable
       THEN \/ /\ pc' = "error"
               /\ error' = "Signal"
               /\ UNCHANGED <<timer_stop_t, trace>>
            \/ /\ timer_stop_t' = 0
               /\ trace' = Append(trace, Ev("timer_stop", 0))
               /\ pc' = "stop_instruments"
               /\ UNCHANGED error
       ELSE /\ timer_stop_t' = clock
            /\ trace' = Append(trace, Ev("timer_stop", clock))
            /\ pc' = "stop_instruments"
            /\ UNCHANGED error
    /\ UNCHANGED <<argv_options, iterations, interp, privileged, counters_file, options,
                   run_no, sched, papi_counters, papi_counters_result, active,
                   polybench_result, returned, warnings, switched, denied>>
    /\ UNCHANGED <<has_tsc, clock, timer_start_t, printed>>
    /\ UNCHANGED pvars

\* __papi_init: the file is read; no name at all is an error; each name the
\* library knows is appended to the class attribute __papi_counters, each other
\* name is warned about.
papi_init ==
    /\ pc = "papi_init"
    /\ IF Len(counters_file) < 1
       THEN /\ pc' = "error"
            /\ error' = "NotImplementedError"
            /\ UNCHANGED <<papi_counters, warnings>>
       ELSE /\ papi_counters' = papi_counters \o resolve_counters(counters_file)
            /\ warnings' = unavailable_counters(counters_file)
            /\ pc' = "papi_prepare"
            /\ UNCHANGED error
    /\ UNCHANGED <<argv_options, iterations, interp, privileged, counters_file, options,
                   run_no, sched, papi_counters_result, active, polybench_result,
                   returned, trace, switched, denied>>
    /\ UNCHANGED avars
    /\ UNCHANGED pvars

\* line 394: self.__prepare_instruments(), once, before the loop.
papi_prepare ==
    /\ pc = "papi_prepare"
    /\ prepare_instruments(<<>>, "papi_loop")
    /\ UNCHANGED <<argv_options, iterations, interp, privileged, counters_file, options,
                   run_no, papi_counters, papi_counters_result, active, polybench_result,
                   returned, warnings>>
    /\ UNCHANGED avars
    /\ UNCHANGED pvars

\* The counters of the loop of line 398 already taken in this run.
counters_done == Cardinality({i \in 1..Len(trace) : trace[i].ev = "papi_stop"})

\* line 398-399: the next counter of self.__papi_counters is started, or the
\* loop ends.
papi_start ==
    /\ pc = "papi_loop"
    /\ IF counters_done < Len(papi_counters)
       THEN /\ active' = active \cup {papi_counters[counters_done + 1]}
            /\ trace' = Append(trace, Ev("papi_start", papi_counters[counters_done + 1]))
            /\ pc' = "papi_kernel"
       ELSE /\ pc' = "stop_instruments"
            /\ UNCHANGED <<active, trace>>
    /\ UNCHANGED <<argv_options, iterations, interp, privileged, counters_file, options,
                   run_no, sched, papi_counters, papi_counters_result, polybench_result,
                   returned, warnings, error, switched, denied>>
    /\ UNCHANGED avars
    /\ UNCHANGED pvars

\* line 400: self.kernel(...) inside the loop (no clock is read in this mode,
\* so the time it takes is not tracked).
papi_kernel ==
    /\ pc = "papi_kernel"
    /\ \/ /\ trace' = Append(trace, Ev("kernel", 0))
          /\ pc' = "papi_stop"
          /\ UNCHANGED error
       \/ /\ trace' = Append(trace, Ev("kernel_raised", 0))
          /\ pc' = "error"
          /\ error' = "KernelError"
    /\ UNCHANGED <<argv_options, iterations, interp, privileged, counters_file, options,
                   run_no, sched, papi_counters, papi_counters_result, active,
                   polybench_result, returned, warnings, switched, denied>>
    /\ UNCHANGED avars
    /\ UNCHANGED pvars

\* line 401: stop_counters() returns the counts of the started counters, which
\* are appended to the class attribute __papi_counters_result.
papi_stop ==
    /\ pc = "papi_stop"
    /\ LET c == papi_counters[counters_done + 1]
       IN /\ papi_counters_result' =
                 Append(papi_counters_result, [ctr |-> c, run |-> run_no])
          /\ active' = active \ {c}
          /\ trace' = Append(trace, Ev("papi_stop", c))
    /\ pc' = "papi_loop"
    /\ UNCHANGED <<argv_options, iterations, interp, privileged, counters_file, options,
                   run_no, sched, papi_counters, polybench_result, returned, warnings,
                   error, switched, denied>>
    /\ UNCHANGED avars
    /\ UNCHANGED pvars

\* The scheduling policies a process of the harness can be under.
Policies == {"SCHED_OTHER", "SCHED_FIFO"}

\* A restore that flips the policy instead of setting it.
linux_standard_scheduler_flip(policy) ==
    IF policy = "SCHED_OTHER" THEN "SCHED_FIFO" ELSE "SCHED_OTHER"

\* __linux_standard_scheduler, lines 545-550: sched_setscheduler(0, SCHED_OTHER,
\* param) sets the policy whatever the policy was (the request is one the
\* kernel grants to every process).
linux_standard_scheduler(policy) ==
    IF os_grants("SCHED_OTHER") THEN "SCHED_OTHER" ELSE policy

\* lines 403-405: the standard scheduler is restored when the FIFO option is set.
stop_instruments ==
    /\ pc = "stop_instruments"
    /\ IF options["POLYBENCH_LINUX_FIFO_SCHEDULER"]
       THEN /\ denied' = (denied \/ ~os_grants("SCHED_OTHER"))
            /\ IF sched_raises("SCHED_OTHER")
               THEN /\ pc' = "error"
                    /\ error' = "PermissionError"
                    /\ UNCHANGED <<sched, trace>>
               ELSE /\ sched' = linux_standard_scheduler(sched)
                    /\ trace' = Append(trace, Ev("standard", standard_priority))
                    /\ pc' = "print_instruments"
                    /\ UNCHANGED error
       ELSE /\ pc' = "print_instruments"
            /\ UNCHANGED <<sched, trace, denied, error>>
    /\ UNCHANGED <<argv_options, iterations, interp, privileged, counters_file, options,
                   run_no, papi_counters, papi_counters_result, active, polybench_result,
                   returned, warnings, switched>>
    /\ UNCHANGED avars
    /\ UNCHANGED pvars

\* An elapsed time that forgets the start instant.
elapsed_since_zero(start, stop) == stop

\* __timer_print, line 435: self.__timer_stop_t - self.__timer_start_t
elapsed(start, stop) == stop - start

\* The result of a timer run: a number, held here in a one-field record.
timer_result(e) == [value |-> e]

\* run(), line 367: __print_instruments; __timer_print or __papi_print prints
\* the measurement and sets self.polybench_result.
print_instruments ==
    /\ pc = "print_instruments"
    /\ IF options["POLYBENCH_TIME"] \/ options["POLYBENCH_GFLOPS"]
       THEN /\ polybench_result' = timer_result(elapsed(timer_start_t, timer_stop_t))
            /\ printed' = <<timer_result(elapsed(timer_start_t, timer_stop_t))>>
       ELSE IF options["POLYBENCH_PAPI"]
       THEN /\ polybench_result' =
                  papi_result(papi_counter_names(papi_counters), papi_counters_result,
                              1, EmptyMap)
            /\ printed' = [i \in 1..Len(papi_counters) |-> papi_counters_result[i]]
       ELSE UNCHANGED <<polybench_result, printed>>
    /\ trace' = Append(trace, Ev("print", 0))
    /\ pc' = "return"
    /\ UNCHANGED <<argv_options, iterations, interp, privileged, counters_file, options,
                   run_no, sched, papi_counters, papi_counters_result, active, returned,
                   warnings, error, switched, denied>>
    /\ UNCHANGED <<has_tsc, clock, timer_start_t, timer_stop_t>>
    /\ UNCHANGED pvars

\* run(), lines 375-381: the dictionary returned.
run_result(opts, result) ==
    IF opts["POLYBENCH_TIME"] THEN [k \in {"POLYBENCH_TIME"} |-> result]
    ELSE IF opts["POLYBENCH_PAPI"] THEN [k \in {"POLYBENCH_PAPI"} |-> result]
    ELSE EmptyMap

\* run(), lines 368-373: the output arrays are dumped when POLYBENCH_DUMP_ARRAYS.
dump_events ==
    IF options["POLYBENCH_DUMP_ARRAYS"] THEN <<Ev("dump", 0)>> ELSE <<>>

\* run() dumps the arrays and returns to the launcher, which loops over the
\* iterations.
return_result ==
    /\ pc = "return"
    /\ trace' = trace \o dump_events
    /\ returned' = run_result(options, polybench_result)
    /\ pc' = IF run_no < iterations THEN "construct" ELSE "done"
    /\ UNCHANGED <<argv_options, iterations, interp, privileged, counters_file, options,
                   run_no, sched, papi_counters, papi_counters_result, active,
                   polybench_result, warnings, error, switched, denied>>
    /\ UNCHANGED avars
    /\ UNCHANGED pvars

Next ==
    \/ parse_command_line
    \/ construct
    \/ time_kernel
    \/ timer_start
    \/ timer_start_read
    \/ timer_kernel
    \/ timer_stop
    \/ papi_init
    \/ papi_prepare
    \/ papi_start
    \/ papi_kernel
    \/ papi_stop
    \/ stop_instruments
    \/ print_instruments
    \/ return_result

Spec == Init /\ [][Next]_vars

(***************************************************************************)
(* The harness at rest, for the specifications of the pure helpers.        *)
(***************************************************************************)
HIdle ==
    /\ argv_options = <<>>
    /\ iterations = 1
    /\ interp = "CPython"
    /\ privileged = FALSE
    /\ counters_file = <<>>
    /\ pc = "idle"
    /\ options = polybench_default_options
    /\ run_no = 0
    /\ sched = "SCHED_OTHER"
    /\ papi_counters = <<>>
    /\ papi_counters_result = <<>>
    /\ active = {}
    /\ polybench_result = EmptyMap
    /\ returned = EmptyMap
    /\ warnings = <<>>
    /\ error = "none"
    /\ trace = <<>>
    /\ switched = FALSE
    /\ denied = FALSE
    /\ has_tsc = TRUE
    /\ clock = 0
    /\ timer_start_t = None
    /\ timer_stop_t = None
    /\ printed = <<>>

(***************************************************************************)
(* create_array (benchmarks/polybench.py 211-314).  An array is modelled   *)
(* by its shape: the length of the list at each nesting level.             *)
(***************************************************************************)
ArrayImplementation == {"LIST", "LIST_FLATTENED", "NUMPY"}

\* __create_array_rec: the shape of the nested list it builds.
RECURSIVE create_array_rec(_, _)
create_array_rec(dimensions, sizes) ==
    IF dimensions = 1 THEN <<sizes[1]>>
    ELSE IF Len(sizes) = 1
         THEN <<sizes[1]>> \o create_array_rec(dimensions - 1, sizes)
         ELSE <<sizes[1]>> \o create_array_rec(dimensions - 1, Tail(sizes))

\* lines 295-297: while len(new_sizes) < dimensions: new_sizes.append(sizes[-1])
RECURSIVE expand_sizes(_, _, _)
expand_sizes(new_sizes, sizes, dimensions) ==
    IF Len(new_sizes) < dimensions
    THEN expand_sizes(Append(new_sizes, sizes[Len(sizes)]), sizes, dimensions)
    ELSE new_sizes

\* lines 292-297: the padded sizes, expanded to the number of dimensions.
padded_sizes(sizes, padding, dimensions) ==
    expand_sizes([k \in 1..Len(sizes) |-> sizes[k] + padding], sizes, dimensions)

\* lines 305-307: the product of all sizes.
RECURSIVE dimension_size(_)
dimension_size(new_sizes) ==
    IF new_sizes = <<>> THEN 1 ELSE Head(new_sizes) * dimension_size(Tail(new_sizes))

\* lines 267-290: the sanity checks on the values.
create_array_rejects(dimensions, sizes) ==
    \/ dimensions < 1
    \/ sizes = <<>>
    \/ \E k \in 1..Len(sizes) : sizes[k] < 1

\* lines 299-314: the array of the selected implementation.
create_array_shape(impl, dimensions, sizes, padding) ==
    LET new_sizes == padded_sizes(sizes, padding, dimensions)
    IN IF impl = "LIST" THEN create_array_rec(dimensions, new_sizes)
       ELSE IF impl = "LIST_FLATTENED" THEN create_array_rec(1, <<dimension_size(new_sizes)>>)
       ELSE create_array_rec(dimensions, new_sizes)

ArrInit ==
    /\ \E d \in 0..MaxDims, sz \in SeqsUpTo(0..MaxSize, MaxDims), pad \in 0..MaxPad,
          impl \in ArrayImplementation :
          arr = [state |-> "call", dimensions |-> d, sizes |-> sz, padding |-> pad,
                 impl |-> impl, shape |-> <<>>]
    /\ bench = [state |-> "idle"]
    /\ dump = [state |-> "idle"]
    /\ LIdle
    /\ NIdle
    /\ HIdle

create_array ==
    /\ arr.state = "call"
    /\ arr' = IF create_array_rejects(arr.dimensions, arr.sizes)
              THEN [arr EXCEPT !.state = "AssertionError"]
              ELSE [arr EXCEPT !.state = "created",
                               !.shape = create_array_shape(arr.impl, arr.dimensions,
                                                            arr.sizes, arr.padding)]
    /\ UNCHANGED <<bench, dump>>
    /\ UNCHANGED lvars
    /\ UNCHANGED nvars
    /\ UNCHANGED hvars

ArrNext == create_array

SpecArray == ArrInit /\ [][ArrNext]_vars

\* The size requested for dimension k (1-based) of a call.
RequestedSize(k) ==
    IF k <= Len(arr.sizes) THEN arr.sizes[k] ELSE arr.sizes[Len(arr.sizes)]

\* C8: every dimension of the created array holds the requested size plus the
\* padding factor, the requested size being the last given one where `sizes`
\* has fewer entries than `dimensions` (for a flattened list: the product).
C8_EveryDimensionPadded ==
    (arr.state = "created" /\ Len(arr.sizes) <= arr.dimensions) =>
        LET want == [k \in 1..arr.dimensions |-> RequestedSize(k) + arr.padding]
        IN IF arr.impl = "LIST_FLATTENED"
           THEN arr.shape = <<dimension_size(want)>>
           ELSE arr.shape = want

(***************************************************************************)
(* Construction of a benchmark from its polybench.spec row                 *)
(* (PolyBenchSpec.__init__, PolyBench.__init__, Gemm.__init__).            *)
(***************************************************************************)
SizeNames == <<"MINI", "SMALL", "MEDIUM", "LARGE", "EXTRA_LARGE">>
\* The column of the row that PolyBenchSpec.__init__ reads for each size.
SizeColumn == <<"MINI", "SMALL", "MEDIUM", "LARGE", "EXTRALARGE">>

\* Two enumerations are called DataSetSize: the one of polybench_classes.py
\* (the keys of PolyBenchSpec.DataSets) and the one of polybench_options.py
\* (the launcher's); a member of the one is not equal to a member of the other.
DataSetSize(module) == {<<module, SizeNames[k]>> : k \in 1..Len(SizeNames)}

\* The parameters Gemm.__init__ reads.
GemmParameters == <<"NI", "NJ", "NK">>

\* PolyBenchSpec.__init__, lines 119-137: one dictionary per dataset size,
\* params[i] -> the i-th number of the size's column.
PolyBenchSpec_DataSets(parameters) ==
    [key \in DataSetSize("polybench_classes") |->
        LET col == SizeColumn[CHOOSE k \in 1..Len(SizeNames) : SizeNames[k] = key[2]]
        IN [p \in Range(parameters.params) |->
              parameters.table[col][CHOOSE i \in 1..Len(parameters.params) :
                                      /\ parameters.params[i] = p
                                      /\ \A m \in (i + 1)..Len(parameters.params) :
                                            parameters.params[m] # p]]]

\* dict.get(name): the value, or None.
dict_get(d, name) == IF name \in DOMAIN d THEN d[name] ELSE None

\* The rows explored: the parameters are NI, NJ, NK or some of them, in order;
\* column c holds scale * (10 * c + i) at position i.
SpecRows ==
    {[params |-> SelectSeq2(GemmParameters, S),
      table |-> [c \in Range(SizeColumn) |->
                   LET ci == CHOOSE k \in 1..Len(SizeColumn) : SizeColumn[k] = c
                   IN [i \in 1..Cardinality(S) |-> scale * (10 * ci + i)]]] :
        S \in SUBSET Range(GemmParameters), scale \in 1..MaxScale}

BenchInit ==
    /\ \E row \in SpecRows,
          size \in DataSetSize("polybench_classes") \cup DataSetSize("polybench_options") :
          bench = [state |-> "new", parameters |-> row, DATASET_SIZE |-> size,
                   NI |-> None, NJ |-> None, NK |-> None]
    /\ arr = [state |-> "idle"]
    /\ dump = [state |-> "idle"]
    /\ LIdle
    /\ NIdle
    /\ HIdle

\* Gemm.__init__, lines 34-46.
Gemm_init ==
    /\ bench.state = "new"
    /\ LET DataSets == PolyBenchSpec_DataSets(bench.parameters)
       IN IF bench.DATASET_SIZE \notin DOMAIN DataSets
          THEN bench' = [bench EXCEPT !.state = "NotImplementedError"]
          ELSE LET params == DataSets[bench.DATASET_SIZE]
               IN bench' = [bench EXCEPT !.state = "constructed",
                                         !.NI = dict_get(params, "NI"),
                                         !.NJ = dict_get(params, "NJ"),
                                         !.NK = dict_get(params, "NK")]
    /\ UNCHANGED <<arr, dump>>
    /\ UNCHANGED lvars
    /\ UNCHANGED nvars
    /\ UNCHANGED hvars

BenchNext == Gemm_init

SpecBench == BenchInit /\ [][BenchNext]_vars

\* C9: a benchmark that is constructed holds a number for every problem-size
\* parameter; no instance exists with a parameter left as None.
C9_NoParameterLeftNone ==
    bench.state = "constructed" =>
        (bench.NI # None /\ bench.NJ # None /\ bench.NK # None)

(***************************************************************************)
(* print_array_custom of gemm, cholesky and nussinov.  The text printed is *)
(* a sequence of tokens: "nl" (a line break) and "v" (one value).          *)
(***************************************************************************)
\* The formatted dump starts a new line where this many values were counted.
WRAP == 20

RECURSIVE Flatten(_)
Flatten(ss) == IF ss = <<>> THEN <<>> ELSE Head(ss) \o Flatten(Tail(ss))

\* for i in range(0, NI): for j in range(0, NJ): the pairs (i, j) in loop order.
full_loop(NI, NJ) == [k \in 1..(NI * NJ) |-> <<(k - 1) \div NJ, (k - 1) % NJ>>]

\* for i in range(0, N): for j in range(0, i + 1)
lower_loop(N) == Flatten([r \in 1..N |-> [c \in 1..r |-> <<r - 1, c - 1>>]])

\* for i in range(0, N): for j in range(i, N)
upper_loop(N) == Flatten([r \in 1..N |-> [c \in 1..(N - r + 1) |-> <<r - 1, r - 1 + c - 1>>]])

\* A wrap test that counts the values printed so far in a row-major way.
gemm_wraps_by_count(i, j, NI, NJ) == (i * NJ + j) % WRAP = 0

\* gemm.py 101: if (i * self.NI + j) % 20 == 0
gemm_wraps(i, j, NI, NJ) == (i * NI + j) % WRAP = 0

\* cholesky.py 103: if (i * self.N + j) % 20 == 0
cholesky_wraps(i, j, N) == (i * N + j) % WRAP = 0

\* nussinov.py 104: if t % 20 == 0, t the number of values printed so far
nussinov_wraps(t) == t % WRAP = 0

\* The loop nest of print_array_custom: before each value, the line break
\* where the kernel's test holds.
print_tokens(kernel, NI, NJ) ==
    LET pairs == IF kernel = "gemm" THEN full_loop(NI, NJ)
                 ELSE IF kernel = "cholesky" THEN lower_loop(NI)
                 ELSE upper_loop(NI)
        wraps(k) == IF kernel = "gemm" THEN gemm_wraps(pairs[k][1], pairs[k][2], NI, NJ)
                    ELSE IF kernel = "cholesky" THEN cholesky_wraps(pairs[k][1], pairs[k][2], NI)
                    ELSE nussinov_wraps(k - 1)
    IN Flatten([k \in 1..Len(pairs) |-> (IF wraps(k) THEN <<"nl">> ELSE <<>>) \o <<"v">>])

\* For cholesky and nussinov the one extent N is held in NI (and NJ = NI).
DumpInit ==
    /\ \E kernel \in {"gemm", "cholesky", "nussinov"}, NI \in 1..MaxExtent, NJ \in 1..MaxExtent :
          /\ kernel # "gemm" => NJ = NI
          /\ dump = [state |-> "dumping", kernel |-> kernel, NI |-> NI, NJ |-> NJ,
                     out |-> <<>>]
    /\ arr = [state |-> "idle"]
    /\ bench = [state |-> "idle"]
    /\ LIdle
    /\ NIdle
    /\ HIdle

print_array_custom ==
    /\ dump.state = "dumping"
    /\ dump' = [dump EXCEPT !.state = "printed",
                            !.out = print_tokens(dump.kernel, dump.NI, dump.NJ)]
    /\ UNCHANGED <<arr, bench>>
    /\ UNCHANGED lvars
    /\ UNCHANGED nvars
    /\ UNCHANGED hvars

DumpNext == print_array_custom

SpecDump == DumpInit /\ [][DumpNext]_vars

\* The values of a text, counted from 0, and where they stand.
NumValues(out) == Cardinality({p \in 1..Len(out) : out[p] = "v"})
ValuePos(out, k) == CHOOSE p \in 1..Len(out) :
                        /\ out[p] = "v"
                        /\ Cardinality({q \in 1..(p - 1) : out[q] = "v"}) = k
BreakBefore(out, k) == LET p == ValuePos(out, k) IN p > 1 /\ out[p - 1] = "nl"

\* The number of values on the line that the k-th value starts.
LineLength(out, k) ==
    LET p == ValuePos(out, k)
        stop == IF \E q \in (p + 1)..Len(out) : out[q] = "nl"
                THEN CHOOSE q \in (p + 1)..Len(out) :
                        out[q] = "nl" /\ \A m \in (p + 1)..(q - 1) : out[m] # "nl"
                ELSE Len(out) + 1
    IN stop - p

WrapsEvery20(out) == \A k \in 0..(NumValues(out) - 1) : BreakBefore(out, k) <=> (k % WRAP = 0)

\* C10 as stated: in every formatted dump a line break precedes the k-th value
\* (k from 0) exactly when k is a multiple of 20, so no line holds more than 20
\* values; non-square gemm and triangular cholesky dumps included.
C10_WrapEvery20Values ==
    dump.state = "printed" =>
        /\ WrapsEvery20(dump.out)
        /\ \A k \in 0..(NumValues(dump.out) - 1) :
              BreakBefore(dump.out, k) => LineLength(dump.out, k) <= WRAP

\* C10, amended: a line break precedes a value exactly when the kernel's own
\* index expression is a multiple of 20: the count of the values printed so
\* far for nussinov, i * NI + j for gemm, i * N + j for cholesky.  That is a
\* break before every 20th value for nussinov and for gemm with NI = NJ.
C10_WrapByKernelIndex ==
    dump.state = "printed" =>
        /\ dump.kernel = "nussinov" =>
              /\ NumValues(dump.out) = (dump.NI * (dump.NI + 1)) \div 2
              /\ WrapsEvery20(dump.out)
        /\ dump.kernel = "gemm" =>
              /\ NumValues(dump.out) = dump.NI * dump.NJ
              /\ \A i \in 0..(dump.NI - 1), j \in 0..(dump.NJ - 1) :
                    BreakBefore(dump.out, i * dump.NJ + j)
                        <=> ((i * dump.NI + j) % WRAP = 0)
              /\ dump.NI = dump.NJ => WrapsEvery20(dump.out)
        /\ dump.kernel = "cholesky" =>
              /\ NumValues(dump.out) = (dump.NI * (dump.NI + 1)) \div 2
              /\ \A i \in 0..(dump.NI - 1) : \A j \in 0..i :
                    BreakBefore(dump.out, (i * (i + 1)) \div 2 + j)
                        <=> ((i * dump.NI + j) % WRAP = 0)

\* A non-square gemm dump has been printed with a line of more than 20 values.
C10_Witness ==
    /\ dump.state = "printed" /\ dump.kernel = "gemm" /\ dump.NI # dump.NJ
    /\ \E k \in 0..(NumValues(dump.out) - 1) :
          BreakBefore(dump.out, k) /\ LineLength(dump.out, k) > WRAP

(***************************************************************************)
(* The harness claims.                                                     *)
(***************************************************************************)
\* time_kernel of the current run has been left (normally or by an exception).
LeftTimeKernel == pc \in {"print_instruments", "return", "done", "error"}

\* __papi_init of the current run is over and did not raise.
PapiInitDone == pc \in {"papi_prepare", "papi_loop", "papi_kernel", "papi_stop",
                        "stop_instruments", "print_instruments", "return", "done"}

KernelCalls == Cardinality({i \in 1..Len(trace) : trace[i].ev = "kernel"})

ResolvableNames == {n \in Range(counters_file) : n \in DOMAIN papi_available_counters}
UnresolvableNames == {n \in Range(counters_file) : n \notin DOMAIN papi_available_counters}
IsUnresolvable(n) == n \notin DOMAIN papi_available_counters

\* C1: once time_kernel has switched the process to the FIFO scheduler, the
\* standard scheduler is restored before time_kernel is left, on every exit
\* path, the kernel raising included.
C1_FifoRestoredOnEveryExit ==
    (LeftTimeKernel /\ switched) => sched = "SCHED_OTHER"

\* C2: a command line enabling POLYBENCH_TIME together with POLYBENCH_PAPI is
\* rejected with a configuration error by parse_command_line, before any
\* benchmark is constructed.
C2_BothModesRejected ==
    (pc # "parse" /\ options["POLYBENCH_TIME"] /\ options["POLYBENCH_PAPI"])
        => (pc = "error" /\ run_no = 0)

\* C3: in counters mode, when no name of the counter file resolves, counter
\* initialization raises: the run gets no further than __papi_init.
C3_ZeroCountersIsFatal ==
    (PapiMode /\ run_no > 0 /\ ResolvableNames = {}
        /\ pc \notin {"construct", "time_kernel", "papi_init"})
        => (pc = "error" /\ error = "NotImplementedError")

\* C4: unless POLYBENCH_NO_FLUSH_CACHE is set, every kernel invocation of a run
\* is preceded by a cache flush with no other kernel invocation in between.
C4_FlushBeforeEveryKernel ==
    ~options["POLYBENCH_NO_FLUSH_CACHE"] =>
        \A i \in 1..Len(trace) :
            trace[i].ev \in {"kernel", "kernel_raised"} =>
                \E j \in 1..(i - 1) :
                    /\ trace[j].ev = "flush"
                    /\ \A k \in (j + 1)..(i - 1) : trace[k].ev # "kernel"

\* C5: in counters mode at most one counter is active at any time, and a run
\* whose counter loop has ended has invoked the kernel once per counter
\* resolved from the counter file.
C5_OneCounterOneKernel ==
    /\ Cardinality(active) <= 1
    /\ (PapiMode /\ pc \in {"stop_instruments", "print_instruments", "return"})
          => KernelCalls = Len(SelectSeq(counters_file, LAMBDA n : ~IsUnresolvable(n)))

\* C6: with a counter list holding at least one unresolvable and at least one
\* resolvable name, __papi_init does not raise, warns once per unresolvable
\* name (in file order), and the result mapping of the run has exactly the
\* resolvable names as keys, each with a count measured for that counter.
C6_MixedListResult ==
    (PapiMode /\ ResolvableNames # {} /\ UnresolvableNames # {}) =>
        /\ error # "NotImplementedError"
        /\ PapiInitDone => warnings = SelectSeq(counters_file, IsUnresolvable)
        /\ pc \in {"return", "done"} =>
              /\ DOMAIN polybench_result = ResolvableNames
              /\ \A n \in DOMAIN polybench_result :
                    polybench_result[n].ctr = papi_available_counters[n]
        /\ pc = "done" => returned = [k \in {"POLYBENCH_PAPI"} |-> polybench_result]

\* A mixed list has been measured and reported, in a second run of the process.
C6_Witness ==
    /\ PapiMode /\ pc = "return" /\ run_no = 2
    /\ Cardinality(ResolvableNames) = 2 /\ UnresolvableNames # {}
    /\ Len(warnings) = 1

\* C7: a scheduler switch the OS refuses ends the run with a visible error, on
\* the CPython path and on the inline-C path alike.
C7_DeniedSwitchIsFatal ==
    denied => (pc = "error" /\ error = "PermissionError")

(***************************************************************************)
(* The scheduler request, the timer and the value run() returns.           *)
(***************************************************************************)
\* C16: every request for the FIFO policy asks the priority
\* sched_get_priority_max(SCHED_FIFO), on the CPython path and on the inline-C
\* path alike.
C16_FifoAtMaxPriority ==
    \A i \in 1..Len(trace) :
        trace[i].ev = "fifo" => trace[i].c = sched_get_priority_max("SCHED_FIFO")

\* C17: cycle-accurate timing requested on a host without a usable timestamp
\* counter is refused when the benchmark is constructed, before anything of the
\* measurement has run; and wall-clock timing on such a host is not disturbed.
C17_CycleTimerRefusedAtConstruction ==
    /\ (TimerMode /\ options["POLYBENCH_CYCLE_ACCURATE_TIMER"] /\ ~has_tsc /\ run_no > 0)
          => (pc = "error" /\ trace = <<>>)
    /\ (TimerMode /\ ~options["POLYBENCH_CYCLE_ACCURATE_TIMER"] /\ ~has_tsc)
          => error # "Signal"

\* run() of the latest instance has returned to the launcher.
RunReturned == run_no > 0 /\ pc \in {"construct", "done"}

\* C18: run() returns {POLYBENCH_TIME: elapsed} when the run was timed,
\* {POLYBENCH_PAPI: name -> count} when counters were measured, the empty
\* mapping only when nothing was measured; what is returned is what the run
\* printed.  (The command lines enabling both POLYBENCH_TIME and POLYBENCH_PAPI
\* are left to C2.)
C18_RunReturnsTheMeasurement ==
    (RunReturned /\ ~(options["POLYBENCH_TIME"] /\ options["POLYBENCH_PAPI"])) =>
        /\ options["POLYBENCH_TIME"] =>
              returned = [k \in {"POLYBENCH_TIME"} |-> polybench_result]
        /\ options["POLYBENCH_PAPI"] =>
              /\ DOMAIN returned = {"POLYBENCH_PAPI"}
              /\ DOMAIN returned["POLYBENCH_PAPI"] \subseteq DOMAIN papi_available_counters
              /\ \A n \in DOMAIN returned["POLYBENCH_PAPI"] :
                    returned["POLYBENCH_PAPI"][n] \in Range(printed)
        /\ returned = EmptyMap =>
              (~options["POLYBENCH_TIME"] /\ ~options["POLYBENCH_PAPI"])
        /\ printed # <<>> =>
              \E k \in DOMAIN returned :
                 \/ <<returned[k]>> = printed
                 \/ \A n \in DOMAIN returned[k] : returned[k][n] \in Range(printed)

\* The run was timed with the wall clock and its measurement is over.
WallClockRunOver ==
    /\ TimerMode /\ ~options["POLYBENCH_CYCLE_ACCURATE_TIMER"]
    /\ run_no > 0 /\ pc \in {"return", "construct", "done"}

TraceIndex(e) == CHOOSE i \in 1..Len(trace) : trace[i].ev = e

\* C19: in wall-clock timer mode the elapsed value reported is the stop instant
\* minus the start instant of the same run; the start instant is read after the
\* cache flush and the scheduler switch, the stop instant right after the kernel
\* returns; a kernel that took time gives elapsed > 0.
C19_ElapsedIsStopMinusStart ==
    WallClockRunOver =>
        LET s == TraceIndex("timer_start")
            k == TraceIndex("kernel")
            e == TraceIndex("timer_stop")
        IN /\ polybench_result = timer_result(trace[e].c - trace[s].c)
           /\ printed = <<polybench_result>>
           /\ \A i \in 1..Len(trace) : trace[i].ev \in {"flush", "fifo"} => i < s
           /\ k = s + 1 /\ e = k + 1
           /\ trace[e].c - trace[s].c = trace[k].c
           /\ trace[k].c > 0 => polybench_result.value > 0

\* A second run of the process, flushed and switched to FIFO, timed a kernel
\* that took time, with a start instant other than 0.
C19_Witness ==
    /\ WallClockRunOver /\ pc = "return" /\ run_no = 2
    /\ timer_start_t > 0 /\ polybench_result.value > 0
    /\ \E i \in 1..Len(trace) : trace[i].ev = "flush"
    /\ \E i \in 1..Len(trace) : trace[i].ev = "fifo"

(***************************************************************************)
(* parse_counters_file (benchmarks/polybench.py 462-483).  A line of        *)
(* papi_counters.list is one of a few texts, taken after line.strip().      *)
(***************************************************************************)
CounterLines == {"PAPI_TOT_CYC", "PAPI_L1_DCM,", "", "// note", "/* note */",
                 "/* note", "note */"}

\* line.startswith('/*'), line.startswith('//'), line.endswith('*/')
startswith_block(line) == line \in {"/* note */", "/* note"}
startswith_slashes(line) == line = "// note"
endswith_block(line) == line \in {"/* note */", "note */"}

\* line.strip('",'): quotes and commas at both ends are removed.
strip_quotes(line) == IF line = "PAPI_L1_DCM," THEN "PAPI_L1_DCM" ELSE line

\* The loop of lines 470-482, is_in_comment being its flag.
RECURSIVE parse_counters_lines(_, _)
parse_counters_lines(lines, is_in_comment) ==
    IF lines = <<>> THEN <<>>
    ELSE LET line == Head(lines)
         IN IF ~is_in_comment
            THEN IF startswith_block(line)
                 THEN parse_counters_lines(Tail(lines), TRUE)
                 ELSE IF startswith_slashes(line)
                 THEN parse_counters_lines(Tail(lines), FALSE)
                 ELSE <<strip_quotes(line)>> \o parse_counters_lines(Tail(lines), FALSE)
            ELSE parse_counters_lines(Tail(lines), ~endswith_block(line))

CountersInit ==
    /\ \E lines \in SeqsUpTo(CounterLines, MaxLines) :
          cfile = [state |-> "file", lines |-> lines, result |-> <<>>]
    /\ launch = [state |-> "idle"]
    /\ cache = [state |-> "idle"]
    /\ arr = [state |-> "idle"]
    /\ bench = [state |-> "idle"]
    /\ dump = [state |-> "idle"]
    /\ NIdle
    /\ HIdle

parse_counters_file ==
    /\ cfile.state = "file"
    /\ cfile' = [cfile EXCEPT !.state = "parsed",
                              !.result = parse_counters_lines(cfile.lines, FALSE)]
    /\ UNCHANGED <<arr, bench, dump, launch, cache>>
    /\ UNCHANGED nvars
    /\ UNCHANGED hvars

CountersNext == parse_counters_file

SpecCounters == CountersInit /\ [][CountersNext]_vars

\* What the lines of a file say: a block comment runs from a line starting
\* with /* to the first line, that one included, ending with */; outside the
\* block comments a line is a // comment, empty, or an event name.
RECURSIVE EventNames(_, _)
EventNames(lines, in_block) ==
    IF lines = <<>> THEN <<>>
    ELSE LET line == Head(lines)
             opens == ~in_block /\ startswith_block(line)
             still == (in_block \/ opens) /\ ~endswith_block(line)
         IN (IF in_block \/ opens \/ startswith_slashes(line) \/ line = ""
             THEN <<>> ELSE <<strip_quotes(line)>>)
            \o EventNames(Tail(lines), still)

\* No line closes a block comment that was not opened.
RECURSIVE WellFormed(_, _)
WellFormed(lines, in_block) ==
    IF lines = <<>> THEN TRUE
    ELSE LET line == Head(lines)
             opens == ~in_block /\ startswith_block(line)
         IN /\ (in_block \/ opens \/ line # "note */")
            /\ WellFormed(Tail(lines), (in_block \/ opens) /\ ~endswith_block(line))

\* C15: parsing the counter file yields, in file order, one name for each line
\* that holds an event name: nothing for the lines of a block comment (also one
\* opened and closed on the same line), for // lines and for empty lines, and
\* no line outside the comments is lost.
C15_NamesOutsideComments ==
    (cfile.state = "parsed" /\ WellFormed(cfile.lines, FALSE)) =>
        cfile.result = EventNames(cfile.lines, FALSE)

(***************************************************************************)
(* __flush_cache (benchmarks/polybench.py 529-536).  The floats of the      *)
(* buffer and of the sum are whole numbers here.                           *)
(***************************************************************************)
\* line 536: assert tmp <= 10.0
FlushThreshold == 10

\* line 531: cs = int(self.POLYBENCH_CACHE_SIZE_KB * 1024 / 8)
flush_elements(cache_size_kb) == (cache_size_kb * 1024) \div 8

\* A buffer initialised to ones.
flush_buffer_of_ones(cs) == [i \in 1..cs |-> 1]

\* line 532: flush = [0.0 for _ in range(cs)]
flush_buffer(cs) == [i \in 1..cs |-> 0]

FlushInit ==
    /\ \E kb \in 0..MaxCacheKB :
          cache = [state |-> "call", POLYBENCH_CACHE_SIZE_KB |-> kb, cs |-> 0,
                   flush |-> <<>>, i |-> 0, tmp |-> 0]
    /\ launch = [state |-> "idle"]
    /\ cfile = [state |-> "idle"]
    /\ arr = [state |-> "idle"]
    /\ bench = [state |-> "idle"]
    /\ dump = [state |-> "idle"]
    /\ NIdle
    /\ HIdle

\* lines 531-533: the buffer is allocated, the sum starts at 0.0.
flush_allocate ==
    /\ cache.state = "call"
    /\ LET cs == flush_elements(cache.POLYBENCH_CACHE_SIZE_KB)
       IN cache' = [cache EXCEPT !.state = "loop", !.cs = cs, !.flush = flush_buffer(cs),
                                 !.i = 0, !.tmp = 0]
    /\ UNCHANGED <<arr, bench, dump, launch, cfile>>
    /\ UNCHANGED nvars
    /\ UNCHANGED hvars

\* lines 534-535: for i in range(cs): tmp += flush[i]
flush_read ==
    /\ cache.state = "loop"
    /\ cache.i < cache.cs
    /\ cache' = [cache EXCEPT !.tmp = cache.tmp + cache.flush[cache.i + 1],
                              !.i = cache.i + 1]
    /\ UNCHANGED <<arr, bench, dump, launch, cfile>>
    /\ UNCHANGED nvars
    /\ UNCHANGED hvars

\* line 536: the assertion, after the loop.
flush_assert ==
    /\ cache.state = "loop"
    /\ cache.i = cache.cs
    /\ cache' = [cache EXCEPT !.state = IF cache.tmp <= FlushThreshold
                                        THEN "flushed" ELSE "AssertionError"]
    /\ UNCHANGED <<arr, bench, dump, launch, cfile>>
    /\ UNCHANGED nvars
    /\ UNCHANGED hvars

FlushNext == flush_allocate \/ flush_read \/ flush_assert

SpecFlush == FlushInit /\ [][FlushNext]_vars

\* C20: the cache flush never raises, and for a cache size of at least 1 KB
\* the buffer has cache_size_kb * 1024 / 8 elements, each is read once, in
\* order, and the sum stays within the threshold up to the assertion.
C20_FlushNeverRaises ==
    /\ cache.state # "AssertionError"
    /\ (cache.state \in {"loop", "flushed"} /\ cache.POLYBENCH_CACHE_SIZE_KB >= 1) =>
          /\ Len(cache.flush) * 8 = cache.POLYBENCH_CACHE_SIZE_KB * 1024
          /\ cache.i <= Len(cache.flush)
          /\ cache.tmp <= FlushThreshold
          /\ cache.state = "flushed" => cache.i = Len(cache.flush)

\* A flush of the largest cache size has read its whole buffer and passed the
\* assertion.
C20_Witness ==
    /\ cache.state = "flushed"
    /\ cache.POLYBENCH_CACHE_SIZE_KB = MaxCacheKB
    /\ cache.i = flush_elements(MaxCacheKB) /\ cache.i > 0

(***************************************************************************)
(* The launcher (run-benchmark.py): parse_command_line, run and            *)
(* validate_benchmark_results.  A text is a sequence of tokens, names and  *)
(* the separators "/" and "."; an optional argument is <<>> (None) or      *)
(* <<value>>.  The benchmark run itself is the harness above.              *)
(***************************************************************************)
\* implementation.__module__ of the available benchmark classes.
benchmark_classes ==
    << <<"benchmarks", ".", "linear_algebra", ".", "blas", ".", "gemm", ".", "gemm">>,
       <<"benchmarks", ".", "medley", ".", "nussinov", ".", "nussinov">> >>

\* The values of the positional argument that are explored.
BenchmarkArgs ==
    { <<"all">>,
      <<"benchmarks", "/", "linear_algebra", "/", "blas", "/", "gemm", "/", "gemm", ".", "py">>,
      <<"benchmarks", "/", "medley", "/", "nope", ".", "py">>,
      <<".", "/", "benchmarks", "/", "medley", "/", "nussinov", "/", "nussinov", ".", "py">> }

\* The values of --dataset-size that are explored.
DatasetArgs == {"MINI", "SMALL", "MEDIUM", "LARGE", "EXTRALARGE", "EXTRA_LARGE", "HUGE"}

\* The files that may exist: the reference file next to the launcher, and
\* under the PolyBench/C path with the Python or the PolyBench/C spelling of
\* the category.
FileCandidates ==
    { <<"ref.out">>,
      <<"polybench-c", "/", "linear_algebra", "/", "blas", "/", "gemm", "/", "ref.out">>,
      <<"polybench-c", "/", "linear-algebra", "/", "blas", "/", "gemm", "/", "ref.out">> }

\* benchmark_py.split('.')[0]: the text before the first "."
RECURSIVE before_first_dot(_)
before_first_dot(text) ==
    IF text = <<>> \/ Head(text) = "." THEN <<>>
    ELSE <<Head(text)>> \o before_first_dot(Tail(text))

\* line 131: benchmark_py.split('.')[0].replace('/', '.')
module_name_of(benchmark_py) ==
    LET stem == before_first_dot(benchmark_py)
    IN [i \in 1..Len(stem) |-> IF stem[i] = "/" THEN "." ELSE stem[i]]

\* str(path).rstrip('/')
RECURSIVE rstrip_slash(_)
rstrip_slash(text) ==
    IF text # <<>> /\ text[Len(text)] = "/" THEN rstrip_slash(SubSeq(text, 1, Len(text) - 1))
    ELSE text

\* line 174: result['benchmark'].replace('benchmarks.', '').split('.')[:-1]
split_cat(module) ==
    LET kept == SelectSeq(module, LAMBDA t : t \notin {".", "benchmarks"})
    IN IF kept = <<>> THEN <<>> ELSE SubSeq(kept, 1, Len(kept) - 1)

\* lines 175-177: category_name += token + '/'
RECURSIVE category_name(_)
category_name(tokens) ==
    IF tokens = <<>> THEN <<>> ELSE <<Head(tokens), "/">> \o category_name(Tail(tokens))

\* lines 187-197: each token of the path loses its leading underscores and
\* has its other underscores turned into hyphens.
fixed_token(token) == IF token = "linear_algebra" THEN "linear-algebra" ELSE token
validated_path(full_path) == [i \in 1..Len(full_path) |-> fixed_token(full_path[i])]

\* Lines 153-203 for an enabled verification: the dictionary result['verify']
\* with its full_path, or the exception raised.
verify_arguments(verify, module, files) ==
    IF "path" \notin DOMAIN verify THEN [raised |-> "KeyError", verify |-> verify]
    ELSE LET full_path == IF verify.path = <<>> THEN <<verify.file>>
                          ELSE verify.path \o <<"/">> \o category_name(split_cat(module))
                               \o <<verify.file>>
         IN IF full_path \in files
            THEN [raised |-> "no", verify |-> verify @@ [full_path |-> full_path]]
            ELSE IF validated_path(full_path) \in files
            THEN [raised |-> "no",
                  verify |-> verify @@ [full_path |-> validated_path(full_path)]]
            ELSE [raised |-> "RuntimeError", verify |-> verify]

\* parse_command_line, lines 104-264, for the arguments of `l`: the exit, the
\* exception or the result dictionary.
parse_arguments(l) ==
    IF l.benchmark = <<>>
    THEN [l EXCEPT !.state = "exit", !.status = (0 - 1) % 256, !.listed = benchmark_classes]
    ELSE LET module == module_name_of(l.benchmark[1])
             enabled == l.verify_file_name # <<>> /\ module # <<"all">>
             v0 == [enabled |-> enabled]
             v1 == IF enabled THEN v0 @@ [file |-> l.verify_file_name[1]] ELSE v0
             v2 == IF l.verify_polybench_path # <<>>
                   THEN v1 @@ [path |-> rstrip_slash(l.verify_polybench_path[1])]
                   ELSE v1
             checked == IF enabled THEN verify_arguments(v2, module, l.files)
                        ELSE [raised |-> "no", verify |-> v2]
             output_array == IF enabled THEN <<l.verify_file_name[1], ".verify">>
                             ELSE <<"stderr">>
         IN IF checked.raised # "no"
            THEN [l EXCEPT !.state = checked.raised, !.status = 1, !.module = module]
            ELSE IF l.dataset_size # <<>> /\ l.dataset_size[1] \notin Range(SizeNames)
            THEN [l EXCEPT !.state = "RuntimeError", !.status = 1, !.module = module]
            ELSE [l EXCEPT !.state = "parsed",
                           !.module = module,
                           !.verify = checked.verify,
                           !.POLYBENCH_DUMP_ARRAYS = enabled,
                           !.POLYBENCH_DUMP_TARGET = output_array,
                           !.POLYBENCH_DATASET_SIZE =
                               IF l.dataset_size = <<>> THEN @
                               ELSE <<"polybench_options", l.dataset_size[1]>>]

\* A selection by the package of the module instead of the module.
implementation_selected_by_package(module_name, implementation) ==
    \/ module_name = <<"all">>
    \/ /\ Len(module_name) >= 3 /\ Len(implementation) >= 3
       /\ SubSeq(implementation, 1, 3) = SubSeq(module_name, 1, 3)

\* run(), line 381: module_name == 'all' or implementation.__module__ == module_name
implementation_selected(module_name, implementation) ==
    module_name = <<"all">> \/ implementation = module_name


\* run(), lines 380-447: the benchmarks run, in order; a single-benchmark run
\* ends the loop at the first module found.
benchmarks_run(module_name) ==
    LET found == SelectSeq(benchmark_classes,
                           LAMBDA impl : implementation_selected(module_name, impl))
    IN IF module_name # <<"all">> /\ found # <<>> THEN <<found[1]>> ELSE found

\* A file: its bytes and its modification time.
Files == [content : SeqsUpTo({"a", "b"}, MaxBytes), mtime : 1..MaxMtime]
NoFile == [content |-> <<>>, mtime |-> 0]

\* filecmp._sig: the type, the size and the modification time.
sig(f) == <<"regular", Len(f.content), f.mtime>>

\* filecmp.cmp(f1, f2), as validate_benchmark_results calls it (shallow is
\* True by default): equal signatures are taken for equal files, different
\* sizes for different files, and the contents are compared otherwise.
cmp(f1, f2) ==
    IF sig(f1) = sig(f2) THEN TRUE
    ELSE IF Len(f1.content) # Len(f2.content) THEN FALSE
    ELSE f1.content = f2.content

LaunchInit ==
    /\ \E benchmark \in {<<>>} \cup {<<b>> : b \in BenchmarkArgs},
          verify_file_name \in {<<>>, <<"ref.out">>},
          verify_polybench_path \in {<<>>, << <<"polybench-c", "/">> >>},
          dataset_size \in {<<>>} \cup {<<d>> : d \in DatasetArgs},
          files \in SUBSET FileCandidates :
          launch = [state |-> "args",
                    benchmark |-> benchmark,
                    verify_file_name |-> verify_file_name,
                    verify_polybench_path |-> verify_polybench_path,
                    dataset_size |-> dataset_size,
                    files |-> files,
                    module |-> <<>>,
                    verify |-> [enabled |-> FALSE],
                    POLYBENCH_DUMP_ARRAYS |-> FALSE,
                    POLYBENCH_DUMP_TARGET |-> <<"stderr">>,
                    POLYBENCH_DATASET_SIZE |-> <<"polybench_options", "LARGE">>,
                    status |-> 0,
                    listed |-> <<>>,
                    ran |-> <<>>,
                    output_file |-> NoFile,
                    verify_file |-> NoFile,
                    verdict |-> "none"]
    /\ cfile = [state |-> "idle"]
    /\ cache = [state |-> "idle"]
    /\ arr = [state |-> "idle"]
    /\ bench = [state |-> "idle"]
    /\ dump = [state |-> "idle"]
    /\ NIdle
    /\ HIdle

\* opts = parse_command_line()
launcher_parse ==
    /\ launch.state = "args"
    /\ launch' = parse_arguments(launch)
    /\ UNCHANGED <<arr, bench, dump, cfile, cache>>
    /\ UNCHANGED nvars
    /\ UNCHANGED hvars

\* run(opts, spec_params): the benchmarks found are run; none found is an
\* error; with verification enabled the dump file written by the run and the
\* reference file are what validate_benchmark_results will compare.
launcher_run ==
    /\ launch.state = "parsed"
    /\ LET ran == benchmarks_run(launch.module)
       IN IF ran = <<>>
          THEN launch' = [launch EXCEPT !.state = "NotImplementedError", !.status = 1]
          ELSE IF launch.verify.enabled
          THEN \E output_file \in Files, verify_file \in Files :
                  launch' = [launch EXCEPT !.state = "validate", !.ran = ran,
                                           !.output_file = output_file,
                                           !.verify_file = verify_file]
          ELSE launch' = [launch EXCEPT !.state = "done", !.ran = ran]
    /\ UNCHANGED <<arr, bench, dump, cfile, cache>>
    /\ UNCHANGED nvars
    /\ UNCHANGED hvars

\* validate_benchmark_results, lines 330-342.
validate_benchmark_results ==
    /\ launch.state = "validate"
    /\ launch' = [launch EXCEPT !.state = "done",
                                !.verdict = IF cmp(launch.output_file, launch.verify_file)
                                            THEN "OK" ELSE "FAIL"]
    /\ UNCHANGED <<arr, bench, dump, cfile, cache>>
    /\ UNCHANGED nvars
    /\ UNCHANGED hvars

LaunchNext == launcher_parse \/ launcher_run \/ validate_benchmark_results

SpecLaunch == LaunchInit /\ [][LaunchNext]_vars

\* C11: with verification enabled the launcher prints OK if and only if the
\* dump file and the reference file have the same bytes, and FAIL otherwise.
C11_OkIffSameBytes ==
    (launch.state = "done" /\ launch.verify.enabled) =>
        /\ launch.verdict \in {"OK", "FAIL"}
        /\ launch.verdict = "OK" <=> launch.output_file.content = launch.verify_file.content

\* parse_command_line is over.
ParseOver == launch.state \notin {"idle", "args"}

\* C12: --verify-file F for a single benchmark, without --verify-polybench-path
\* (and nothing else on the command line): parsing completes with verification
\* enabled, array dumping on, the dump target F + '.verify' and the reference
\* file F; an error is raised only if F does not exist.
C12_VerifyFileAlone ==
    (/\ ParseOver
     /\ launch.benchmark # <<>> /\ launch.benchmark # << <<"all">> >>
     /\ launch.verify_file_name # <<>> /\ launch.verify_polybench_path = <<>>
     /\ launch.dataset_size = <<>>
     /\ launch.state \in {"parsed", "exit", "RuntimeError", "KeyError"}) =>
        IF <<launch.verify_file_name[1]>> \in launch.files
        THEN /\ launch.state = "parsed"
             /\ launch.verify.enabled
             /\ launch.POLYBENCH_DUMP_ARRAYS
             /\ launch.POLYBENCH_DUMP_TARGET = <<launch.verify_file_name[1], ".verify">>
             /\ launch.verify.full_path = <<launch.verify_file_name[1]>>
        ELSE launch.state = "RuntimeError"

\* The values of --dataset-size that the help text documents, and the member
\* of DataSetSize each stands for.
DocumentedSizes == {"MINI", "SMALL", "MEDIUM", "LARGE", "EXTRALARGE"}
SizeMember(name) == IF name = "EXTRALARGE" THEN "EXTRA_LARGE" ELSE name

\* C13: each documented value of --dataset-size is accepted and selects the
\* corresponding size; any other value is rejected with an error before any
\* benchmark is run.  (Command lines without --verify-file.)
C13_DocumentedSizesAccepted ==
    (/\ ParseOver
     /\ launch.benchmark # <<>> /\ launch.verify_file_name = <<>>
     /\ launch.dataset_size # <<>>) =>
        IF launch.dataset_size[1] \in DocumentedSizes
        THEN /\ launch.state # "RuntimeError"
             /\ launch.POLYBENCH_DATASET_SIZE =
                   <<"polybench_options", SizeMember(launch.dataset_size[1])>>
        ELSE launch.state = "RuntimeError" /\ launch.ran = <<>>

\* The benchmark named is not 'all' and is the module of no benchmark class.
UnknownModule ==
    /\ launch.benchmark # <<>>
    /\ module_name_of(launch.benchmark[1]) # <<"all">>
    /\ \A i \in 1..Len(benchmark_classes) :
          benchmark_classes[i] # module_name_of(launch.benchmark[1])

\* C14: with an unknown module no benchmark is ever run and run() ends with
\* the 'module not implemented' error; with the benchmark name omitted the
\* launcher lists the available benchmarks and exits with a non-zero status,
\* having run nothing.
C14_UnknownModuleRunsNothing ==
    /\ [](UnknownModule =>
            /\ launch.ran = <<>>
            /\ launch.state \in {"args", "parsed", "RuntimeError", "KeyError",
                                 "NotImplementedError"})
    /\ []((launch.state # "idle" /\ launch.benchmark = <<>> /\ ParseOver) =>
            /\ launch.state = "exit"
            /\ launch.status # 0
            /\ launch.listed = benchmark_classes
            /\ launch.ran = <<>>)
    /\ [][(UnknownModule /\ launch.state = "parsed")
             => launch'.state = "NotImplementedError"]_vars

\* run() has ended with 'module not implemented' for a module that exists in
\* no package, and for one named with a leading './'.
C14_Witness ==
    /\ launch.state = "NotImplementedError"
    /\ launch.ran = <<>>
    /\ launch.module \in {<<>>, <<"benchmarks", ".", "medley", ".", "nope">>}

(***************************************************************************)
(* The restore of the standard scheduler without a FIFO enable before it.  *)
(***************************************************************************)
\* The restore is about to run in a run whose FIFO request was never granted
\* (no measurement mode reached __prepare_instruments, or the request was
\* refused and the refusal ignored).
RestoreWithoutEnable ==
    /\ pc = "stop_instruments"
    /\ options["POLYBENCH_LINUX_FIFO_SCHEDULER"]
    /\ ~switched

\* C21: a restore that runs without a prior FIFO enable leaves the process
\* under the standard policy and changes nothing else of the measurement
\* state (no error, no result, no counter); a restore applied to the policy a
\* restore left gives that policy again, so the restore of a second run has
\* the effect of the first.
C21_RestoreIsIdempotent ==
    /\ [](\A p \in Policies :
            linux_standard_scheduler(linux_standard_scheduler(p))
                = linux_standard_scheduler(p))
    /\ [][RestoreWithoutEnable =>
            /\ sched' = "SCHED_OTHER"
            /\ pc' = "print_instruments"
            /\ trace' = Append(trace, Ev("standard", standard_priority))
            /\ UNCHANGED <<options, run_no, papi_counters, papi_counters_result, active,
                           polybench_result, returned, warnings, error, switched, denied>>
            /\ UNCHANGED avars]_vars

\* The second run of a command line with the FIFO option and no measurement
\* mode has restored the scheduler, as the first run did.
C21_Witness ==
    /\ run_no = 2
    /\ pc = "print_instruments"
    /\ options["POLYBENCH_LINUX_FIFO_SCHEDULER"]
    /\ ~TimerMode /\ ~options["POLYBENCH_PAPI"]
    /\ trace = <<Ev("standard", standard_priority)>>
    /\ sched = "SCHED_OTHER"

(***************************************************************************)
(* The data run_benchmark returns.                                         *)
(***************************************************************************)
\* run_benchmark (gemm.py 53-74) creates and initializes the arrays, hands
\* them to time_kernel and returns them: the kernel works in place, so the
\* arrays returned are the initialized arrays after as many applications of
\* the kernel as time_kernel made.
kernel_applications == KernelCalls

\* time_kernel has returned to run_benchmark in this run.
TimeKernelReturned == pc \in {"print_instruments", "return"}

\* C22: whatever the measurement options, the arrays run_benchmark returns
\* are the initialized arrays after exactly one application of the kernel.
C22_KernelAppliedOnce ==
    TimeKernelReturned => kernel_applications = 1

(***************************************************************************)
(* The measurement state from one run to the next.                         *)
(***************************************************************************)
\* C23: in counters mode the counters of run k are those resolved from the
\* counter file, whatever ran before in the process, and every count run k
\* prints and returns was measured during run k.
C23_NoLeakBetweenRuns ==
    PapiMode =>
        /\ PapiInitDone => papi_counters = resolve_counters(counters_file)
        /\ pc = "return" =>
              /\ \A n \in DOMAIN polybench_result : polybench_result[n].run = run_no
              /\ \A i \in 1..Len(printed) : printed[i].run = run_no

(***************************************************************************)
(* The order of the steps of a timer-mode run.                             *)
(***************************************************************************)
\* The names of the events of a trace.
EventsOf(t) == [i \in 1..Len(t) |-> t[i].ev]

\* The steps of a timer-mode run under the options in force, in the order the
\* run is to take them.
TimerSteps ==
    (IF ~options["POLYBENCH_NO_FLUSH_CACHE"] THEN <<"flush">> ELSE <<>>)
    \o (IF options["POLYBENCH_LINUX_FIFO_SCHEDULER"] THEN <<"fifo">> ELSE <<>>)
    \o <<"timer_start", "kernel", "timer_stop">>
    \o (IF options["POLYBENCH_LINUX_FIFO_SCHEDULER"] THEN <<"standard">> ELSE <<>>)
    \o <<"print">>
    \o (IF options["POLYBENCH_DUMP_ARRAYS"] THEN <<"dump">> ELSE <<>>)

IsPrefix(s, t) == Len(s) <= Len(t) /\ \A i \in 1..Len(s) : s[i] = t[i]

\* C24: the events of a timer-mode run are at every moment the first steps of
\* flush, fifo, start instant, kernel, stop instant, standard scheduler, print,
\* dump (each step present as its option says), and all of them, once each,
\* when run() has returned; so nothing is printed before the kernel stopped
\* and the scheduler was restored.
C24_TimerStepsInOrder ==
    (TimerMode /\ run_no > 0 /\ error = "none") =>
        /\ IsPrefix(EventsOf(trace), TimerSteps)
        /\ RunReturned => EventsOf(trace) = TimerSteps

\* A timer-mode run with the flush, the FIFO scheduler and the dump has
\* returned.
C24_Witness ==
    /\ TimerMode /\ RunReturned /\ error = "none"
    /\ ~options["POLYBENCH_NO_FLUSH_CACHE"]
    /\ options["POLYBENCH_LINUX_FIFO_SCHEDULER"]
    /\ options["POLYBENCH_DUMP_ARRAYS"]
    /\ EventsOf(trace) = <<"flush", "fifo", "timer_start", "kernel", "timer_stop",
                            "standard", "print", "dump">>

(***************************************************************************)
(* The list-based arrays (packages/array/multidimensional_arrays.py).      *)
(***************************************************************************)
MaxArrays == 2
MaxDimSize == 2
MaxValue == 1

\* Python objects: an int, or a list of objects.
PyInt(n) == [int |-> n]
PyList(s) == [list |-> s]
IsList(c) == "list" \in DOMAIN c

\* The outcome of an expression: an object, an offset, or an exception.
Ok(c) == [ok |-> c]
Off(n) == [off |-> n]
Exc(e) == [exc |-> e]
Raised(r) == "exc" \in DOMAIN r

\* _create_array_rec(dimensions, sizes, initialization_value)
RECURSIVE mda_create_array_rec(_, _, _)
mda_create_array_rec(dimensions, sizes, initialization_value) ==
    IF dimensions = 1
    THEN PyList([x \in 1..sizes[1] |-> PyInt(initialization_value)])
    ELSE IF Len(sizes) = 1
    THEN PyList([x \in 1..sizes[1] |->
                    mda_create_array_rec(dimensions - 1, sizes, initialization_value)])
    ELSE PyList([x \in 1..sizes[1] |->
                    mda_create_array_rec(dimensions - 1, Tail(sizes),
                                         initialization_value)])

\* MultidimensionalArrayList.__list_init__
nested_list_init(shape) == mda_create_array_rec(Len(shape), shape, 0)

\* MultidimensionalArrayListFlattened.__list_init__: self.size, then the list.
RECURSIVE flattened_size(_)
flattened_size(shape) ==
    IF shape = <<>> THEN 1 ELSE Head(shape) * flattened_size(Tail(shape))

flattened_list_init(shape) == PyList([x \in 1..flattened_size(shape) |-> PyInt(0)])

\* list.__getitem__(i) and list.__setitem__(i, v) for an index i >= 0; an
\* object that is no list cannot be subscripted.
list_getitem(c, i) ==
    IF ~IsList(c) THEN Exc("TypeError")
    ELSE IF i < Len(c.list) THEN Ok(c.list[i + 1])
    ELSE Exc("IndexError")

list_setitem(c, i, v) ==
    IF i < Len(c.list) THEN Ok(PyList([c.list EXCEPT ![i + 1] = v]))
    ELSE Exc("IndexError")

\* MultidimensionalArrayList.get_item_1d, get_item_2d, get_item_3d with a tuple:
\* data[item[0]], data[item[0]][item[1]], data[item[0]][item[1]][item[2]].
\* Each item[k] is evaluated before the subscription that uses it.
RECURSIVE nested_get_item(_, _, _, _)
nested_get_item(c, item, k, n) ==
    IF k > n THEN Ok(c)
    ELSE IF k > Len(item) THEN Exc("IndexError")
    ELSE LET r == list_getitem(c, item[k])
         IN IF Raised(r) THEN r ELSE nested_get_item(r.ok, item, k + 1, n)

\* MultidimensionalArrayList.set_item_1d, set_item_2d, set_item_3d with a tuple:
\* data.__getitem__(key[0]) ... .__setitem__(key[n-1], value).  The method of
\* the object reached is looked up before key[k] is evaluated, and an int has
\* neither __getitem__ nor __setitem__.
RECURSIVE nested_set_item(_, _, _, _, _)
nested_set_item(c, key, k, n, value) ==
    IF k > 1 /\ ~IsList(c) THEN Exc("AttributeError")
    ELSE IF k > Len(key) THEN Exc("IndexError")
    ELSE IF k = n THEN list_setitem(c, key[k], PyInt(value))
    ELSE LET r == list_getitem(c, key[k])
         IN IF Raised(r) THEN r
            ELSE LET t == nested_set_item(r.ok, key, k + 1, n, value)
                 IN IF Raised(t) THEN t
                    ELSE Ok(PyList([c.list EXCEPT ![key[k] + 1] = t.ok]))

\* MultidimensionalArrayListFlattened.get_item_Nd and set_item_Nd with a tuple:
\* the offset item[0], item[0] * DIM2_SIZE + item[1] or
\* (item[0] * DIM2_SIZE + item[1]) * DIM3_SIZE + item[2], evaluated from left
\* to right.  DIMk_SIZE is an attribute of the instance, set for k <= len(shape).
flattened_offset(n, shape, item) ==
    IF n = 1 THEN Off(item[1])
    ELSE IF Len(shape) < 2 THEN Exc("AttributeError")
    ELSE IF Len(item) < 2 THEN Exc("IndexError")
    ELSE IF n = 2 THEN Off(item[1] * shape[2] + item[2])
    ELSE IF Len(shape) < 3 THEN Exc("AttributeError")
    ELSE IF Len(item) < 3 THEN Exc("IndexError")
    ELSE Off((item[1] * shape[2] + item[2]) * shape[3] + item[3])

\* The two list-based classes.
ListClasses == {"MultidimensionalArrayList", "MultidimensionalArrayListFlattened"}

\* instance[item] for a tuple: Python looks __getitem__ up on the class, and
\* n tells which of get_item_1d/2d/3d the class holds at the moment.
mda_get_item(cls, n, instance, item) ==
    IF cls = "MultidimensionalArrayList"
    THEN nested_get_item(instance.data, item, 1, n)
    ELSE LET o == flattened_offset(n, instance.shape, item)
         IN IF Raised(o) THEN o ELSE list_getitem(instance.data, o.off)

\* instance[key] = value for a tuple, through the __setitem__ of the class.
mda_set_item(cls, n, instance, key, value) ==
    IF cls = "MultidimensionalArrayList"
    THEN nested_set_item(instance.data, key, 1, n, value)
    ELSE LET o == flattened_offset(n, instance.shape, key)
         IN IF Raised(o) THEN o ELSE list_setitem(instance.data, o.off, PyInt(value))

\* __init__ of either class: shape and the list of __list_init__.
mda_instance(cls, shape) ==
    [shape |-> shape,
     data |-> IF cls = "MultidimensionalArrayList"
              THEN nested_list_init(shape) ELSE flattened_list_init(shape)]

\* The in-range index tuples of a shape.
Keys(shape) ==
    {key \in [1..Len(shape) -> 0..(MaxDimSize - 1)] :
        \A k \in 1..Len(shape) : key[k] < shape[k]}

\* A program creates arrays of one class whose shapes are the first one, two
\* or three of the sizes dims, writes one element by a tuple and reads it back.
MdaInit ==
    /\ \E cls \in ListClasses, dims \in [1..3 -> 1..MaxDimSize] :
          mda = [state |-> "run", cls |-> cls, dims |-> dims, arrays |-> <<>>,
                 getitem |-> 0, setitem |-> 0, written |-> <<>>, read |-> <<>>]
    /\ arr = [state |-> "idle"]
    /\ bench = [state |-> "idle"]
    /\ dump = [state |-> "idle"]
    /\ LIdle
    /\ fw = [state |-> "idle"]
    /\ lookup = [state |-> "idle"]
    /\ popts = [state |-> "idle"]
    /\ HIdle

\* __init__, lines 76-126 and 134-200: the instance is created and the
\* accessors of its dimensionality are assigned to the class.
mda_init ==
    /\ mda.state = "run"
    /\ Len(mda.arrays) < MaxArrays
    /\ \E nd \in 1..3 :
          mda' = [mda EXCEPT
                    !.arrays = Append(@, mda_instance(mda.cls, SubSeq(mda.dims, 1, nd))),
                    !.getitem = nd,
                    !.setitem = nd]
    /\ UNCHANGED <<arr, bench, dump, fw, lookup, popts>>
    /\ UNCHANGED lvars
    /\ UNCHANGED hvars

\* array[key] = value for an in-range tuple of the array's own shape.
mda_setitem ==
    /\ mda.state = "run"
    /\ mda.written = <<>>
    /\ \E a \in 1..Len(mda.arrays), value \in 1..MaxValue :
          \E key \in Keys(mda.arrays[a].shape) :
             LET r == mda_set_item(mda.cls, mda.setitem, mda.arrays[a], key, value)
                 w == [a |-> a, key |-> key, value |-> value, n |-> mda.setitem]
             IN IF Raised(r)
                THEN mda' = [mda EXCEPT !.written = <<w @@ [exc |-> r.exc]>>]
                ELSE mda' = [mda EXCEPT !.written = <<w @@ [exc |-> "none"]>>,
                                        !.arrays[a].data = r.ok]
    /\ UNCHANGED <<arr, bench, dump, fw, lookup, popts>>
    /\ UNCHANGED lvars
    /\ UNCHANGED hvars

\* array[key] for the tuple written before.
mda_getitem ==
    /\ mda.state = "run"
    /\ mda.written # <<>>
    /\ mda.read = <<>>
    /\ LET w == mda.written[1]
       IN mda' = [mda EXCEPT !.read =
                    <<mda_get_item(mda.cls, mda.getitem, mda.arrays[w.a], w.key)
                      @@ [n |-> mda.getitem]>>]
    /\ UNCHANGED <<arr, bench, dump, fw, lookup, popts>>
    /\ UNCHANGED lvars
    /\ UNCHANGED hvars

MdaNext == mda_init \/ mda_setitem \/ mda_getitem

SpecIndex == MdaInit /\ [][MdaNext]_vars

\* The list of an array of the given shape, all zeros but v at the element the
\* index tuple names in that shape: nested, and row-major in one buffer.
RECURSIVE NestedWith(_, _, _)
NestedWith(shape, key, v) ==
    PyList([x \in 1..shape[1] |->
              IF Len(shape) = 1
              THEN PyInt(IF x = key[1] + 1 THEN v ELSE 0)
              ELSE IF x = key[1] + 1 THEN NestedWith(Tail(shape), Tail(key), v)
              ELSE mda_create_array_rec(Len(shape) - 1, Tail(shape), 0)])

RowMajor(shape, key) ==
    IF Len(shape) = 1 THEN key[1]
    ELSE IF Len(shape) = 2 THEN key[1] * shape[2] + key[2]
    ELSE (key[1] * shape[2] + key[2]) * shape[3] + key[3]

FlattenedWith(shape, key, v) ==
    PyList([x \in 1..flattened_size(shape) |->
              PyInt(IF x = RowMajor(shape, key) + 1 THEN v ELSE 0)])

ArrayWith(cls, shape, key, v) ==
    IF cls = "MultidimensionalArrayList"
    THEN NestedWith(shape, key, v) ELSE FlattenedWith(shape, key, v)

\* The write addressed the element the tuple names in the array's own shape,
\* and the read of the same tuple returned that element.
OwnShapeAddressed ==
    /\ mda.written # <<>> =>
          LET w == mda.written[1]
          IN /\ w.exc = "none"
             /\ \A b \in 1..Len(mda.arrays) :
                   mda.arrays[b].data =
                       IF b = w.a
                       THEN ArrayWith(mda.cls, mda.arrays[b].shape, w.key, w.value)
                       ELSE mda_instance(mda.cls, mda.arrays[b].shape).data
    /\ mda.read # <<>> =>
          /\ ~Raised(mda.read[1])
          /\ mda.read[1].ok = PyInt(mda.written[1].value)

\* C25: whatever arrays were created before or after an instance, a read or a
\* write of the instance by an index tuple addresses the element that the
\* instance's own shape gives.
C25_IndexingByOwnShape ==
    mda.state = "run" => OwnShapeAddressed

\* The array written is a flattened one of two or three dimensions.
FlattenedWritten ==
    /\ mda.state = "run"
    /\ mda.cls = "MultidimensionalArrayListFlattened"
    /\ mda.written # <<>>
    /\ Len(mda.arrays[mda.written[1].a].shape) \in {2, 3}

\* C26: in a flattened array of shape (d1,d2) or (d1,d2,d3) the tuple (i,j)
\* is at offset i*d2+j and (i,j,k) at (i*d2+j)*d3+k, distinct in-range tuples
\* are at distinct offsets within 0..size-1, and a write of v by a tuple
\* changes that element alone, which a read of the tuple then returns, as in
\* the nested array of the same shape.
C26_FlattenedLikeNested ==
    FlattenedWritten =>
        LET w == mda.written[1]
            shape == mda.arrays[w.a].shape
            offset(key) == flattened_offset(mda.setitem, shape, key)
        IN /\ \A key \in Keys(shape) :
                 /\ ~Raised(offset(key))
                 /\ offset(key).off = RowMajor(shape, key)
                 /\ offset(key).off \in 0..(flattened_size(shape) - 1)
           /\ \A k1, k2 \in Keys(shape) :
                 (~Raised(offset(k1)) /\ ~Raised(offset(k2)) /\ k1 # k2)
                     => offset(k1).off # offset(k2).off
           /\ w.exc = "none"
           /\ mda.arrays[w.a].data = FlattenedWith(shape, w.key, w.value)
           /\ mda.read # <<>> =>
                 /\ ~Raised(mda.read[1])
                 /\ mda.read[1].ok = PyInt(w.value)
                 /\ mda.read[1].ok =
                       nested_get_item(NestedWith(shape, w.key, w.value),
                                       w.key, 1, Len(shape)).ok

(***************************************************************************)
(* floyd_warshall (benchmarks/medley/floyd_warshall/floyd_warshall.py):    *)
(* the three storage strategies run side by side on the same problem.      *)
(***************************************************************************)
MaxN == 3

\* initialize_array, lines 95-97 (129-131, 163-165): the weight of (i, j).
initial_weight(i, j) ==
    IF (i + j) % 13 = 0 \/ (i + j) % 7 = 0 \/ (i + j) % 11 = 0
    THEN 999
    ELSE ((i * j) % 7) + 1

\* run_benchmark, line 56: create_array(2, [N, N], 0) of each implementation.
\* A nested list is a sequence of rows, a flattened list one sequence, a NumPy
\* array a function of the index pair.
fw_create_array(impl, N, padding) ==
    LET shape == create_array_shape(impl, 2, <<N, N>>, padding)
    IN IF impl = "LIST"
       THEN [x \in 1..shape[1] |-> [y \in 1..shape[2] |-> 0]]
       ELSE IF impl = "LIST_FLATTENED"
       THEN [x \in 1..shape[1] |-> 0]
       ELSE [x \in (0..(shape[1] - 1)) \X (0..(shape[2] - 1)) |-> 0]

\* _Floyd_warshallList.initialize_array: path[i][j] = ...
list_initialize_array(path, N) ==
    [x \in 1..Len(path) |-> [y \in 1..Len(path[x]) |->
        IF x <= N /\ y <= N THEN initial_weight(x - 1, y - 1) ELSE path[x][y]]]

\* _Floyd_warshallListFlattened.initialize_array: path[self.N * i + j] = ...
flattened_initialize_array(path, N) ==
    [x \in 1..Len(path) |->
        IF x <= N * N THEN initial_weight((x - 1) \div N, (x - 1) % N) ELSE path[x]]

\* _Floyd_warshallNumPy.initialize_array: path[i, j] = ...
numpy_initialize_array(path, N) ==
    [x \in DOMAIN path |->
        IF x[1] < N /\ x[2] < N THEN initial_weight(x[1], x[2]) ELSE path[x]]

\* A loop body that never takes the path through k.
list_kernel_step_keep(path, k, i, j) == path

\* _Floyd_warshallList.kernel, lines 111-114: the body of the loop nest.
list_kernel_step(path, k, i, j) ==
    IF path[i + 1][j + 1] < path[i + 1][k + 1] + path[k + 1][j + 1]
    THEN [path EXCEPT ![i + 1][j + 1] = path[i + 1][j + 1]]
    ELSE [path EXCEPT ![i + 1][j + 1] = path[i + 1][k + 1] + path[k + 1][j + 1]]

\* A loop body whose comparison is the other way round.
flattened_kernel_step_greater(path, N, k, i, j) ==
    IF path[N * i + j + 1] > path[N * i + k + 1] + path[N * k + j + 1]
    THEN [path EXCEPT ![N * i + j + 1] = path[N * i + j + 1]]
    ELSE [path EXCEPT ![N * i + j + 1] = path[N * i + k + 1] + path[N * k + j + 1]]

\* _Floyd_warshallListFlattened.kernel, lines 145-148.
flattened_kernel_step(path, N, k, i, j) ==
    IF path[N * i + j + 1] < path[N * i + k + 1] + path[N * k + j + 1]
    THEN [path EXCEPT ![N * i + j + 1] = path[N * i + j + 1]]
    ELSE [path EXCEPT ![N * i + j + 1] = path[N * i + k + 1] + path[N * k + j + 1]]

\* _Floyd_warshallNumPy.kernel, lines 179-182.
numpy_kernel_step(path, k, i, j) ==
    IF path[<<i, j>>] < path[<<i, k>>] + path[<<k, j>>]
    THEN [path EXCEPT ![<<i, j>>] = path[<<i, j>>]]
    ELSE [path EXCEPT ![<<i, j>>] = path[<<i, k>>] + path[<<k, j>>]]

\* The indices of the pos-th iteration (from 0) of for k, for i, for j.
loop_k(pos, N) == pos \div (N * N)
loop_i(pos, N) == (pos \div N) % N
loop_j(pos, N) == pos % N

\* print_value: DATA_PRINT_MODIFIER '{:d} ' of an integer, the decimal digits
\* and a blank.
DigitChars == <<"0", "1", "2", "3", "4", "5", "6", "7", "8", "9">>

RECURSIVE format_d(_)
format_d(value) ==
    IF value < 10 THEN <<DigitChars[value + 1]>>
    ELSE format_d(value \div 10) \o <<DigitChars[(value % 10) + 1]>>

print_value(value) == format_d(value) \o <<" ">>

\* print_array_custom of the three strategies: for i, for j, a new line when
\* (i * N + j) % 20 == 0, then the value.  values holds the elements in the
\* order of the two loops, the one of (i, j) at i * N + j + 1.
RECURSIVE fw_print_from(_, _)
fw_print_from(values, pos) ==
    IF pos >= Len(values) THEN <<>>
    ELSE (IF pos % 20 = 0 THEN <<"\n">> ELSE <<>>)
         \o print_value(values[pos + 1])
         \o fw_print_from(values, pos + 1)

list_print_array_custom(path, N) ==
    fw_print_from([x \in 1..(N * N) |-> path[((x - 1) \div N) + 1][((x - 1) % N) + 1]], 0)

flattened_print_array_custom(path, N) ==
    fw_print_from([x \in 1..(N * N) |-> path[N * ((x - 1) \div N) + ((x - 1) % N) + 1]], 0)

numpy_print_array_custom(path, N) ==
    fw_print_from([x \in 1..(N * N) |-> path[<<(x - 1) \div N, (x - 1) % N>>]], 0)

FloydInit ==
    /\ \E N \in 1..MaxN, padding \in 0..MaxPad :
          fw = [state |-> "new", N |-> N, padding |-> padding, pos |-> 0,
                list |-> <<>>, flattened |-> <<>>, numpy |-> <<>>]
    /\ arr = [state |-> "idle"]
    /\ bench = [state |-> "idle"]
    /\ dump = [state |-> "idle"]
    /\ LIdle
    /\ mda = [state |-> "idle"]
    /\ lookup = [state |-> "idle"]
    /\ popts = [state |-> "idle"]
    /\ HIdle

\* run_benchmark, line 56.
fw_create ==
    /\ fw.state = "new"
    /\ fw' = [fw EXCEPT !.state = "created",
                        !.list = fw_create_array("LIST", fw.N, fw.padding),
                        !.flattened = fw_create_array("LIST_FLATTENED", fw.N, fw.padding),
                        !.numpy = fw_create_array("NUMPY", fw.N, fw.padding)]
    /\ UNCHANGED <<arr, bench, dump, mda, lookup, popts>>
    /\ UNCHANGED lvars
    /\ UNCHANGED hvars

\* run_benchmark, line 59.
fw_initialize_array ==
    /\ fw.state = "created"
    /\ fw' = [fw EXCEPT !.state = "kernel",
                        !.list = list_initialize_array(fw.list, fw.N),
                        !.flattened = flattened_initialize_array(fw.flattened, fw.N),
                        !.numpy = numpy_initialize_array(fw.numpy, fw.N)]
    /\ UNCHANGED <<arr, bench, dump, mda, lookup, popts>>
    /\ UNCHANGED lvars
    /\ UNCHANGED hvars

\* kernel: one iteration of the loop nest in each strategy.
fw_kernel ==
    /\ fw.state = "kernel"
    /\ LET k == loop_k(fw.pos, fw.N)
           i == loop_i(fw.pos, fw.N)
           j == loop_j(fw.pos, fw.N)
       IN fw' = [fw EXCEPT
                   !.state = IF fw.pos + 1 = fw.N * fw.N * fw.N THEN "done" ELSE "kernel",
                   !.pos = fw.pos + 1,
                   !.list = list_kernel_step(fw.list, k, i, j),
                   !.flattened = flattened_kernel_step(fw.flattened, fw.N, k, i, j),
                   !.numpy = numpy_kernel_step(fw.numpy, k, i, j)]
    /\ UNCHANGED <<arr, bench, dump, mda, lookup, popts>>
    /\ UNCHANGED lvars
    /\ UNCHANGED hvars

FloydNext == fw_create \/ fw_initialize_array \/ fw_kernel

SpecFloyd == FloydInit /\ [][FloydNext]_vars

\* C27: from initialize_array on, through the kernel, element (i, j) of the
\* nested list equals the element at offset N*i+j of the flattened list and
\* element [i, j] of the NumPy array, for every N and padding, and what the
\* three print_array_custom print is the same text.
C27_StrategiesInterchangeable ==
    fw.state \in {"kernel", "done"} =>
        /\ \A i, j \in 0..(fw.N - 1) :
              /\ fw.list[i + 1][j + 1] = fw.flattened[fw.N * i + j + 1]
              /\ fw.list[i + 1][j + 1] = fw.numpy[<<i, j>>]
        /\ list_print_array_custom(fw.list, fw.N)
              = flattened_print_array_custom(fw.flattened, fw.N)
        /\ list_print_array_custom(fw.list, fw.N)
              = numpy_print_array_custom(fw.numpy, fw.N)

\* The kernel has ended on a padded problem of the largest size and has
\* shortened a path.
C27_Witness ==
    /\ fw.state = "done"
    /\ fw.N = MaxN
    /\ fw.padding > 0
    /\ fw.flattened[1] = 2
    /\ fw.list[1][1] = 2

(***************************************************************************)
(* The floyd_warshall kernel on any matrix of positive weights.            *)
(***************************************************************************)
\* The weights a matrix of the exploration holds.
Weights == {1, 3}

\* The matrices explored: any weight on every edge between two vertices, and
\* one weight for all the loops.
PathsInit ==
    /\ \E N \in 1..MaxN :
          \E path \in [1..N -> [1..N -> Weights]] :
             /\ \A i \in 1..N : path[i][i] = path[1][1]
             /\ fw = [state |-> "kernel", N |-> N, pos |-> 0, initial |-> path,
                      path |-> path]
    /\ arr = [state |-> "idle"]
    /\ bench = [state |-> "idle"]
    /\ dump = [state |-> "idle"]
    /\ LIdle
    /\ mda = [state |-> "idle"]
    /\ lookup = [state |-> "idle"]
    /\ popts = [state |-> "idle"]
    /\ HIdle

\* self.kernel(path): one iteration of the loop nest.
paths_kernel ==
    /\ fw.state = "kernel"
    /\ fw' = [fw EXCEPT
                !.state = IF fw.pos + 1 = fw.N * fw.N * fw.N THEN "shortest" ELSE "kernel",
                !.pos = fw.pos + 1,
                !.path = list_kernel_step(fw.path, loop_k(fw.pos, fw.N),
                                          loop_i(fw.pos, fw.N), loop_j(fw.pos, fw.N))]
    /\ UNCHANGED <<arr, bench, dump, mda, lookup, popts>>
    /\ UNCHANGED lvars
    /\ UNCHANGED hvars

PathsNext == paths_kernel

SpecPaths == PathsInit /\ [][PathsNext]_vars

Min(S) == CHOOSE x \in S : \A y \in S : x <= y

\* The least total weight of the walks from i to j of one to m edges in the
\* matrix W, for every i and j.  With positive weights a lightest non-empty
\* walk repeats no inner vertex, so it has at most N edges.
RECURSIVE MinWalkUpTo(_, _, _)
MinWalkUpTo(W, N, m) ==
    IF m = 1 THEN W
    ELSE LET D == MinWalkUpTo(W, N, m - 1)
         IN [i \in 1..N |-> [j \in 1..N |->
                Min({D[i][j]} \cup {D[i][k] + W[k][j] : k \in 1..N})]]

MinWalk(W, N) == MinWalkUpTo(W, N, N + 1)

\* C30: after the kernel every path[i][j] is the least total weight of the
\* non-empty walks from i to j in the initial matrix; so path[i][j] <=
\* path[i][k] + path[k][j] for all i, j, k, and no entry exceeds its initial
\* value.
C30_ShortestWalks ==
    fw.state = "shortest" =>
        /\ fw.path = MinWalk(fw.initial, fw.N)
        /\ \A i, j, k \in 1..fw.N : fw.path[i][j] <= fw.path[i][k] + fw.path[k][j]
        /\ \A i, j \in 1..fw.N : fw.path[i][j] <= fw.initial[i][j]

\* The kernel has run on a matrix of the largest size where the walk through
\* a third vertex is lighter than the edge.
C30_Witness ==
    /\ fw.state = "shortest"
    /\ fw.N = MaxN
    /\ fw.N >= 3
    /\ fw.initial[1][2] = 3
    /\ fw.initial[1][3] = 1
    /\ fw.initial[3][2] = 1
    /\ fw.path[1][2] = 2

(***************************************************************************)
(* run(): the row of polybench.spec handed to a benchmark                  *)
(* (run-benchmark.py 398-406).  A string is the sequence of its characters.*)
(***************************************************************************)
MaxRows == 3

\* Kernel names of polybench.spec (the first column of a row): lu, ludcmp,
\* gemm and floyd-warshall.
KernelNames ==
    { <<"l", "u">>,
      <<"l", "u", "d", "c", "m", "p">>,
      <<"g", "e", "m", "m">>,
      <<"f", "l", "o", "y", "d", "-", "w", "a", "r", "s", "h", "a", "l",
        "l">> }

\* implementation.__module__ of three benchmark classes of the repository:
\* benchmarks.linear_algebra.solvers.ludcmp.ludcmp,
\* benchmarks.linear_algebra.blas.gemm.gemm and
\* benchmarks.medley.floyd_warshall.floyd_warshall.
ImplementationModules ==
    { <<"b", "e", "n", "c", "h", "m", "a", "r", "k", "s", ".", "l", "i",
        "n", "e", "a", "r", "_", "a", "l", "g", "e", "b", "r", "a", ".",
        "s", "o", "l", "v", "e", "r", "s", ".", "l", "u", "d", "c", "m",
        "p", ".", "l", "u", "d", "c", "m", "p">>,
      <<"b", "e", "n", "c", "h", "m", "a", "r", "k", "s", ".", "l", "i",
        "n", "e", "a", "r", "_", "a", "l", "g", "e", "b", "r", "a", ".",
        "b", "l", "a", "s", ".", "g", "e", "m", "m", ".", "g", "e", "m",
        "m">>,
      <<"b", "e", "n", "c", "h", "m", "a", "r", "k", "s", ".", "m", "e",
        "d", "l", "e", "y", ".", "f", "l", "o", "y", "d", "_", "w", "a",
        "r", "s", "h", "a", "l", "l", ".", "f", "l", "o", "y", "d", "_",
        "w", "a", "r", "s", "h", "a", "l", "l">> }

\* str.replace(old, new) for one-character strings.
str_replace(str, old, new) ==
    [x \in 1..Len(str) |-> IF str[x] = old THEN new ELSE str[x]]

\* A test for equality with the last component of the dotted name.
is_last_component(sub, str) ==
    /\ Len(sub) <= Len(str)
    /\ SubSeq(str, Len(str) - Len(sub) + 1, Len(str)) = sub
    /\ (Len(sub) < Len(str) => str[Len(str) - Len(sub)] = ".")

\* Python's `sub in str` for strings: sub occurs somewhere in str.
str_in(sub, str) ==
    \E x \in 0..(Len(str) - Len(sub)) : SubSeq(str, x + 1, x + Len(sub)) = sub

\* lines 400-404: for spec in spec_params: if spec['kernel'] in
\* non_pythonic_benchmark: bench_params = spec; break.  The result is the row
\* found, in a one-element sequence, or <<>> for the {} bench_params starts as.
RECURSIVE find_bench_params(_, _)
find_bench_params(spec_params, non_pythonic_benchmark) ==
    IF spec_params = <<>> THEN <<>>
    ELSE IF str_in(Head(spec_params).kernel, non_pythonic_benchmark)
    THEN <<Head(spec_params)>>
    ELSE find_bench_params(Tail(spec_params), non_pythonic_benchmark)

\* parse_spec_file: one dictionary per line of the file, in file order.  A
\* file names a kernel once.
SpecFiles ==
    {rows \in SeqsUpTo(KernelNames, MaxRows) :
        \A x, y \in 1..Len(rows) : x # y => rows[x] # rows[y]}

LookupInit ==
    /\ \E rows \in SpecFiles, module \in ImplementationModules :
          lookup = [state |-> "run", module |-> module,
                    spec_params |-> [x \in 1..Len(rows) |-> [kernel |-> rows[x], line |-> x]],
                    bench_params |-> <<>>]
    /\ arr = [state |-> "idle"]
    /\ bench = [state |-> "idle"]
    /\ dump = [state |-> "idle"]
    /\ LIdle
    /\ mda = [state |-> "idle"]
    /\ fw = [state |-> "idle"]
    /\ popts = [state |-> "idle"]
    /\ HIdle

\* lines 398-406: the parameters of the implementation found.
retrieve_parameters ==
    /\ lookup.state = "run"
    /\ lookup' = [lookup EXCEPT
                    !.state = "parameters",
                    !.bench_params =
                        find_bench_params(lookup.spec_params,
                                          str_replace(lookup.module, "_", "-"))]
    /\ UNCHANGED <<arr, bench, dump, mda, fw, popts>>
    /\ UNCHANGED lvars
    /\ UNCHANGED hvars

LookupNext == retrieve_parameters

SpecLookup == LookupInit /\ [][LookupNext]_vars

\* The row of a kernel is the row of the benchmark: its name is the name of
\* the benchmark's module (the last component) with '_' mapped to '-'.
OwnRow(row) == is_last_component(row.kernel, str_replace(lookup.module, "_", "-"))

\* C28: the row a benchmark is constructed with is the row of its own kernel
\* whenever the spec file has one, wherever that row stands in the file, and
\* never the row of another kernel.
C28_OwnRowChosen ==
    lookup.state = "parameters" =>
        /\ \A x \in 1..Len(lookup.bench_params) : OwnRow(lookup.bench_params[x])
        /\ \A x \in 1..Len(lookup.spec_params) :
              OwnRow(lookup.spec_params[x]) =>
                  lookup.bench_params = <<lookup.spec_params[x]>>

(***************************************************************************)
(* --polybench-options (run-benchmark.py 205-222), with the values of the  *)
(* options as they are typed: a value is a record tagged with its kind.    *)
(***************************************************************************)
MaxItems == 2

BoolValue(b) == [bool |-> b]
IntValue(n) == [int |-> n]
FileValue(f) == [file |-> f]
SizeValue(z) == [size |-> z]

\* polybench_options.polybench_default_options, every key of it.
typed_default_options ==
    [POLYBENCH_TIME |-> BoolValue(FALSE),
     POLYBENCH_DUMP_ARRAYS |-> BoolValue(FALSE),
     POLYBENCH_PADDING_FACTOR |-> IntValue(0),
     POLYBENCH_PAPI |-> BoolValue(FALSE),
     POLYBENCH_CACHE_SIZE_KB |-> IntValue(32770),
     POLYBENCH_NO_FLUSH_CACHE |-> BoolValue(FALSE),
     POLYBENCH_CYCLE_ACCURATE_TIMER |-> BoolValue(FALSE),
     POLYBENCH_LINUX_FIFO_SCHEDULER |-> BoolValue(FALSE),
     POLYBENCH_DUMP_TARGET |-> FileValue("stderr"),
     POLYBENCH_GFLOPS |-> BoolValue(FALSE),
     POLYBENCH_PAPI_VERBOSE |-> BoolValue(FALSE),
     POLYBENCH_DATASET_SIZE |-> SizeValue("LARGE"),
     POLYBENCH_FLATTEN_LISTS |-> BoolValue(FALSE)]

\* str.isnumeric() and int() on the value texts explored: the texts made of
\* digits are numeric, "x", "-1" and "" are not.
int_of_text == [t \in {"0", "3"} |-> IF t = "0" THEN 0 ELSE 3]
isnumeric(text) == text \in DOMAIN int_of_text

\* The items explored.  An item is the list option.split('=') gives: the name
\* alone, the name and a value, or more parts.
ItemNames == {"POLYBENCH_TIME", "POLYBENCH_PADDING_FACTOR", "POLYBENCH_DUMP_TARGET",
              "NOT_AN_OPTION"}
ItemValues == {"3", "x", "-1"}
OptionItems ==
    {<<n>> : n \in ItemNames}
        \cup {<<n, v>> : n \in ItemNames, v \in ItemValues}
        \cup {<<"POLYBENCH_PADDING_FACTOR", "3", "3">>}

\* lines 211-222, the body of `for option in options`: a text that is a key is
\* set to True; otherwise NAME=value with a numeric value sets result[NAME] to
\* the integer, whatever NAME is.  (A text with '=' in it is never a key.)
process_option(result, opval) ==
    IF Len(opval) = 1 /\ opval[1] \in DOMAIN result
    THEN [result EXCEPT ![opval[1]] = BoolValue(TRUE)]
    ELSE IF Len(opval) = 2 /\ isnumeric(opval[2])
    THEN (opval[1] :> IntValue(int_of_text[opval[2]])) @@ result
    ELSE result

\* lines 207-222: the defaults are copied, then every item is processed.
RECURSIVE process_polybench_options(_, _)
process_polybench_options(items, result) ==
    IF items = <<>> THEN result
    ELSE process_polybench_options(Tail(items), process_option(result, Head(items)))

OptionsInit ==
    /\ \E items \in SeqsUpTo(OptionItems, MaxItems) :
          popts = [state |-> "args", options |-> items,
                   polybench_options |-> typed_default_options]
    /\ arr = [state |-> "idle"]
    /\ bench = [state |-> "idle"]
    /\ dump = [state |-> "idle"]
    /\ LIdle
    /\ mda = [state |-> "idle"]
    /\ fw = [state |-> "idle"]
    /\ lookup = [state |-> "idle"]
    /\ HIdle

\* parse_command_line, "Process PolyBench options".
parse_polybench_options ==
    /\ popts.state = "args"
    /\ popts' = [popts EXCEPT
                   !.state = "parsed",
                   !.polybench_options =
                       process_polybench_options(popts.options, typed_default_options)]
    /\ UNCHANGED <<arr, bench, dump, mda, fw, lookup>>
    /\ UNCHANGED lvars
    /\ UNCHANGED hvars

OptionsNext == parse_polybench_options

SpecOptions == OptionsInit /\ [][OptionsNext]_vars

\* The kind of a typed value.
KindOf(v) == DOMAIN v

\* C29: after the parse every option holds a value of the kind of its default
\* (a boolean stays a boolean, a number a non-negative integer) and the option
\* set has no key but the known options, whatever the list of items.
C29_OptionsKeepTheirKind ==
    popts.state = "parsed" =>
        /\ DOMAIN popts.polybench_options = DOMAIN typed_default_options
        /\ \A o \in DOMAIN popts.polybench_options \cap DOMAIN typed_default_options :
              /\ KindOf(popts.polybench_options[o]) = KindOf(typed_default_options[o])
              /\ "int" \in KindOf(popts.polybench_options[o])
                    => popts.polybench_options[o].int >= 0

====
